---- MODULE Spec2Model ----
(***************************************************************************)
(* A model of the PROFINET DCP core of profinet-rs: the frame, header and  *)
(* block codecs (src/src/dcp, src/src/ethernet), the request dispatcher    *)
(* Dcp::handle_frame and the response scheduler of PNet (src/src/lib.rs).  *)
(*                                                                         *)
(* Byte buffers are sequences of numbers 0..255; a Rust index i is the     *)
(* TLA+ index i + 1.  A Rust panic (index out of bounds, todo!(), checked  *)
(* arithmetic) is a result of its own: the device stops (panicked).        *)
(***************************************************************************)
EXTENDS Integers, Sequences, FiniteSets, TLC

(***************************************************************************)
(* Program constants.                                                      *)
(***************************************************************************)
DCP_MAC_HELLO_ADDRESS == <<1, 14, 207, 0, 0, 0>>
MAX_DCP_BLOCK_NUMBER == 32
MAX_DEVICE_VENDOR_LENGTH == 255
MAX_NAME_OF_STATION_LENGTH == 240
DCP_HEADER_LENGTH_FIELD == 10
OUTGOING_CAPACITY == 8
PACKET_BUF_LEN == 1024
RESPONSE_BUF_LEN == 255
ETH_PAYLOAD_START == 16
VLAN_PAYLOAD_START == 20
MAX_AR == 1
MAX_CR == 2
MAX_PHYSICAL_PORTS == 1
MAX_SCHEDULER_TASKS == 2 * MAX_AR * MAX_CR + 2 * MAX_PHYSICAL_PORTS + 9

(***************************************************************************)
(* Option<T>.                                                              *)
(***************************************************************************)
None == [some |-> FALSE]
Some(x) == [some |-> TRUE, v |-> x]

(***************************************************************************)
(* Byte codec (byteorder::NetworkEndian and slices).                       *)
(***************************************************************************)
ReadU16(buf, i) == buf[i + 1] * 256 + buf[i + 2]
ReadU32(buf, i) ==
    ((buf[i + 1] * 256 + buf[i + 2]) * 256 + buf[i + 3]) * 256 + buf[i + 4]
WriteU16(n) == <<(n \div 256) % 256, n % 256>>
WriteU32(n) ==
    <<(n \div 16777216) % 256, (n \div 65536) % 256, (n \div 256) % 256, n % 256>>
\* buf[a..b]
Slice(buf, a, b) == SubSeq(buf, a + 1, b)
Zeros(n) == SubSeq([k \in 1..n |-> 0], 1, n)
\* buf[off..off+len(bytes)].copy_from_slice(bytes)
WriteAt(buf, off, bytes) ==
    SubSeq(buf, 1, off) \o bytes \o SubSeq(buf, off + Len(bytes) + 1, Len(buf))

(***************************************************************************)
(* Enumerations decoded from the wire.                                     *)
(***************************************************************************)
\* EthType::from(u16)
EthTypeFrom(raw) ==
    IF raw = 34962 THEN "Profinet" ELSE IF raw = 33024 THEN "Vlan" ELSE "Other"
EthTypeAsU16(t) == IF t = "Profinet" THEN 34962 ELSE 33024

\* FrameId::from(u16): Dcp = 0xfefc with alternatives 0xfefd..0xfeff (half open)
FrameIdFrom(raw) == IF raw \in 65276..65278 THEN "Dcp" ELSE "Other"

\* DcpFrameId::try_from_primitive
DcpFrameIdTry(raw) ==
    CASE raw = 65276 -> Some("Hello")
      [] raw = 65277 -> Some("GetSet")
      [] raw = 65278 -> Some("Request")
      [] raw = 65279 -> Some("Response")
      [] OTHER -> None
DcpFrameIdAsU16(f) ==
    CASE f = "Hello" -> 65276
      [] f = "GetSet" -> 65277
      [] f = "Request" -> 65278
      [] f = "Response" -> 65279

\* ServiceId::try_from_primitive
ServiceIdTry(raw) ==
    CASE raw = 3 -> Some("Get")
      [] raw = 4 -> Some("Set")
      [] raw = 5 -> Some("Identify")
      [] raw = 6 -> Some("Hello")
      [] OTHER -> None
ServiceIdAsU8(s) ==
    CASE s = "Get" -> 3 [] s = "Set" -> 4 [] s = "Identify" -> 5 [] s = "Hello" -> 6

\* ServiceType::try_from_primitive
ServiceTypeTry(raw) ==
    CASE raw = 0 -> Some("Request")
      [] raw = 1 -> Some("Success")
      [] raw = 5 -> Some("NotSupported")
      [] OTHER -> None
ServiceTypeAsU8(s) ==
    CASE s = "Request" -> 0 [] s = "Success" -> 1 [] s = "NotSupported" -> 5

\* BlockOption::try_from: ManufacturerSpecific = 0x80 with alternatives
\* 0x81..0xfe (half open)
BlockOptionTry(raw) ==
    CASE raw = 1 -> Some("IP")
      [] raw = 2 -> Some("DeviceProperties")
      [] raw = 3 -> Some("DHCP")
      [] raw = 5 -> Some("Control")
      [] raw = 6 -> Some("DeviceInitiative")
      [] raw = 7 -> Some("NMEDomain")
      [] raw \in 128..253 -> Some("ManufacturerSpecific")
      [] raw = 255 -> Some("All")
      [] OTHER -> None

\* DeviceRole::try_from_primitive
DeviceRoleTry(raw) ==
    CASE raw = 0 -> Some("IODevice")
      [] raw = 1 -> Some("IOController")
      [] raw = 2 -> Some("IOMultidevice")
      [] raw = 3 -> Some("IOSupervisor")
      [] OTHER -> None
DeviceRoleAsU8(r) ==
    CASE r = "IODevice" -> 0
      [] r = "IOController" -> 1
      [] r = "IOMultidevice" -> 2
      [] r = "IOSupervisor" -> 3

(***************************************************************************)
(* Results: Ok(v), Err(e), or a panic.                                     *)
(***************************************************************************)
Ok(x) == [res |-> "ok", v |-> x]
Err(e) == [res |-> "err", e |-> e]
Panic(why) == [res |-> "panic", why |-> why]

(***************************************************************************)
(* Block codec (src/src/dcp/block.rs).  A Block is a record tagged by t.   *)
(***************************************************************************)
IpKinds == {"MacAddress", "IpParameter", "FullIpSuite"}
ValuelessKinds == {"AliasName", "OemDeviceId", "StandardGateway", "RsiProperties"}

\* a fixed array of n bytes holding bytes[..len] followed by zeros
PadTo(bytes, len, n) == SubSeq(bytes, 1, len) \o Zeros(n - len)

\* the match of DcpBlock::new over IpBlock::block_length and
\* DevicePropertiesBlock::block_length (Block::All => 0)
InnerBlockLength(b) ==
    CASE b.t = "MacAddress" -> 6 + 2
      [] b.t = "IpParameter" -> 12 + 2
      [] b.t = "FullIpSuite" -> 16 + 2
      [] b.t = "DeviceVendor" -> (b.length % 65536) + 2
      [] b.t = "NameOfStation" -> (b.length % 65536) + 2
      [] b.t = "DeviceId" -> 4 + 2
      [] b.t = "DeviceInstance" -> 2 + 2
      [] b.t = "DeviceOptions" -> 4
      [] b.t = "All" -> 0
      [] OTHER -> 1 + 2

\* DcpBlock::new: the block header is added and the length made even
DcpBlockNew(b) ==
    LET l0 == InnerBlockLength(b) + 4
        l1 == IF l0 % 2 = 1 THEN l0 + 1 ELSE l0
    IN  [block |-> b, block_length |-> l1]

\* parse_bytes copying into an array that grows with data_size
ParseBytesNoCap(t, buffer, data_size, cap) ==
    IF data_size > Len(buffer) THEN Panic("index out of bounds")
    ELSE
      LET bytes == IF data_size <= cap THEN PadTo(buffer, data_size, cap)
                   ELSE SubSeq(buffer, 1, data_size)
      IN  IF t = "NameOfStation"
          THEN Ok([t |-> t, name |-> bytes, length |-> data_size])
          ELSE Ok([t |-> t, vendor |-> bytes, length |-> data_size])

\* NameOfStation::parse_bytes / DeviceVendor::parse_bytes: the copy loop
\* indexes the fixed array, so data_size > cap panics
ParseBytes(t, buffer, data_size, cap) ==
    IF data_size > cap \/ data_size > Len(buffer)
    THEN Panic("index out of bounds")
    ELSE IF t = "NameOfStation"
         THEN Ok([t |-> t, name |-> PadTo(buffer, data_size, cap), length |-> data_size])
         ELSE Ok([t |-> t, vendor |-> PadTo(buffer, data_size, cap), length |-> data_size])

\* the IP arm of DcpBlock::parse_block
ParseIpBlock(suboption, payload) ==
    CASE suboption = 1 ->
            IF Len(payload) < 6 THEN Panic("slice index")
            ELSE Ok([t |-> "MacAddress", address |-> Slice(payload, 0, 6)])
      [] suboption = 2 ->
            IF Len(payload) < 12 THEN Panic("slice index")
            ELSE Ok([t |-> "IpParameter",
                     ip_address |-> Slice(payload, 0, 4),
                     subnet_mask |-> Slice(payload, 4, 8),
                     gateway |-> Slice(payload, 8, 12)])
      [] suboption = 3 ->
            IF Len(payload) < 16 THEN Panic("slice index")
            ELSE Ok([t |-> "FullIpSuite",
                     ip_address |-> Slice(payload, 0, 4),
                     subnet_mask |-> Slice(payload, 4, 8),
                     gateway |-> Slice(payload, 8, 12),
                     dns |-> Slice(payload, 12, 16)])
      [] OTHER -> Err("InvalidIPSuboption")

\* the DeviceProperties arm of DcpBlock::parse_block
ParseDevicePropertiesBlock(suboption, payload, payload_length) ==
    CASE suboption = 1 ->
            ParseBytes("DeviceVendor", payload, payload_length, MAX_DEVICE_VENDOR_LENGTH)
      [] suboption = 2 ->
            ParseBytes("NameOfStation", payload, payload_length, MAX_NAME_OF_STATION_LENGTH)
      [] suboption = 3 ->
            IF Len(payload) < 4 THEN Panic("slice index")
            ELSE Ok([t |-> "DeviceId", vendor_id |-> ReadU16(payload, 0),
                     device_id |-> ReadU16(payload, 2)])
      [] suboption = 4 ->
            IF Len(payload) < 1 THEN Panic("index out of bounds")
            ELSE IF DeviceRoleTry(payload[1]).some
                 THEN Ok([t |-> "DeviceRole", role |-> DeviceRoleTry(payload[1]).v])
                 ELSE Err("InvalidDeviceRole")
      [] suboption = 5 -> Ok([t |-> "DeviceOptions"])
      [] suboption = 6 -> Ok([t |-> "AliasName"])
      [] suboption = 7 ->
            IF Len(payload) < 2 THEN Panic("index out of bounds")
            ELSE Ok([t |-> "DeviceInstance", high |-> payload[1], low |-> payload[2]])
      [] suboption = 8 -> Ok([t |-> "OemDeviceId"])
      [] suboption = 9 -> Ok([t |-> "StandardGateway"])
      [] suboption = 10 -> Ok([t |-> "RsiProperties"])
      [] OTHER -> Err("InvalidDevicePropertySuboption")

\* DcpBlock::parse_block(buffer)
ParseBlock(buffer) ==
    IF Len(buffer) < 1 THEN Panic("index out of bounds")
    ELSE IF ~BlockOptionTry(buffer[1]).some THEN Err("InvalidBlockOption")
    ELSE IF Len(buffer) < 4 THEN Panic("index out of bounds")
    ELSE
      LET option == BlockOptionTry(buffer[1]).v
          suboption == buffer[2]
          block_length == ReadU16(buffer, 2)
      IN  IF option = "All" /\ suboption = 255
          THEN Ok([block |-> [t |-> "All"], block_length |-> block_length])
          ELSE IF Len(buffer) < 6 THEN Panic("slice index")
          ELSE
            LET payload == Slice(buffer, 6, Len(buffer))
                payload_length == block_length - 2
                block ==
                    CASE option = "IP" -> ParseIpBlock(suboption, payload)
                      [] option = "DeviceProperties" ->
                            ParseDevicePropertiesBlock(suboption, payload, payload_length)
                      [] OTHER -> Panic("todo!()")
            IN  IF block.res = "ok"
                THEN Ok([block |-> block.v, block_length |-> block_length])
                ELSE block

(***************************************************************************)
(* Header codec (src/src/dcp/header.rs).                                   *)
(***************************************************************************)
\* DcpHeader::new
DcpHeaderNew(service_id, service_type, x_id, response_delay) ==
    [service_id |-> service_id, service_type |-> service_type, x_id |-> x_id,
     response_delay_factor |-> response_delay, data_length |-> 0]

\* DcpHeaderFrame::new_checked + DcpHeader::parse over the DCP payload
DcpHeaderParse(payload) ==
    IF ~(Len(payload) > DCP_HEADER_LENGTH_FIELD) THEN Err("InvalidHeaderLength")
    ELSE IF ~ServiceIdTry(payload[1]).some THEN Err("InvalidServiceID")
    ELSE IF ~ServiceTypeTry(payload[2]).some THEN Err("InvalidServiceType")
    ELSE Ok([service_id |-> ServiceIdTry(payload[1]).v,
             service_type |-> ServiceTypeTry(payload[2]).v,
             x_id |-> ReadU32(payload, 2),
             response_delay_factor |-> ReadU16(payload, 6),
             data_length |-> ReadU16(payload, 8)])

\* encode_into writing the delay factor the header holds
DcpHeaderEncodeDelay(h) ==
    <<ServiceIdAsU8(h.service_id), ServiceTypeAsU8(h.service_type)>>
        \o WriteU32(h.x_id) \o WriteU16(h.response_delay_factor)
        \o WriteU16(h.data_length)

\* DcpHeader::encode_into: the ten header bytes; the delay field is written 0
DcpHeaderEncode(h) ==
    <<ServiceIdAsU8(h.service_id), ServiceTypeAsU8(h.service_type)>>
        \o WriteU32(h.x_id) \o WriteU16(0) \o WriteU16(h.data_length)

(***************************************************************************)
(* Ethernet framing (src/src/ethernet/mod.rs).  An EthernetFrame is the    *)
(* buffer and its is_vlan flag.                                            *)
(***************************************************************************)
\* EthernetFrame::eth_type
FrameEthType(f) ==
    EthTypeFrom(IF f.is_vlan THEN ReadU16(f.buffer, 16) ELSE ReadU16(f.buffer, 12))

\* EthernetFrame::new_checked
EthernetFrameNewChecked(buffer) ==
    IF Len(buffer) < ETH_PAYLOAD_START THEN Err("PacketParsingError")
    ELSE Ok([buffer |-> buffer,
             is_vlan |-> FrameEthType([buffer |-> buffer, is_vlan |-> FALSE]) = "Vlan"])

FrameDstAddress(f) == Slice(f.buffer, 0, 6)
FrameSrcAddress(f) == Slice(f.buffer, 6, 12)
FrameIsProfinet(f) == FrameEthType(f) = "Profinet"
\* frame_id_u16 reading bytes 14..16 whether or not the frame is tagged
FrameIdU16Untagged(f) == ReadU16(f.buffer, 14)
\* EthernetFrame::frame_id_u16
FrameIdU16(f) == IF f.is_vlan THEN ReadU16(f.buffer, 18) ELSE ReadU16(f.buffer, 14)
\* EthernetFrame::payload
FramePayload(f) ==
    Slice(f.buffer, IF f.is_vlan THEN VLAN_PAYLOAD_START ELSE ETH_PAYLOAD_START,
          Len(f.buffer))

(***************************************************************************)
(* Frame codec (src/src/dcp/mod.rs).                                       *)
(***************************************************************************)
NoBlocks == SubSeq([k \in 1..MAX_DCP_BLOCK_NUMBER |-> None], 1, MAX_DCP_BLOCK_NUMBER)

\* Dcp::new with the two addresses exchanged
DcpNewSwapped(destination, source, header, frame_id) ==
    [destination |-> source, source |-> destination, eth_type |-> "Profinet",
     frame_id |-> frame_id, header |-> header, number_of_blocks |-> 0,
     blocks |-> NoBlocks]

\* Dcp::new
DcpNew(destination, source, header, frame_id) ==
    [destination |-> destination, source |-> source, eth_type |-> "Profinet",
     frame_id |-> frame_id, header |-> header, number_of_blocks |-> 0,
     blocks |-> NoBlocks]

\* add_block that does not advance number_of_blocks
AddBlockNoAdvance(dcp, b) ==
    [dcp EXCEPT !.blocks[dcp.number_of_blocks + 1] = Some(b),
                !.header.data_length = (@ + b.block_length) % 65536]

\* Dcp::add_block (blocks[number_of_blocks] indexes the fixed array)
AddBlock(dcp, b) ==
    [dcp EXCEPT !.blocks[dcp.number_of_blocks + 1] = Some(b),
                !.number_of_blocks = @ + 1,
                !.header.data_length = (@ + b.block_length) % 65536]

\* the while loop of Dcp::parse without the step over the pad byte
RECURSIVE ParseBlocksNoPad(_, _, _, _, _, _)
ParseBlocksNoPad(payload, data_length, block_start_index, block_number, blocks, checks) ==
    IF ~(block_start_index < data_length)
    THEN Ok([number_of_blocks |-> block_number, blocks |-> blocks])
    ELSE IF block_start_index + 4 > Len(payload)
    THEN Panic("slice index")
    ELSE
      LET declared == ReadU16(payload, block_start_index + 2)
          block_length == (declared + 4) % 65536
          block_end_index == block_start_index + block_length
      IN  IF checks /\ declared + 4 > 65535 THEN Panic("attempt to add with overflow")
          ELSE IF block_end_index > Len(payload) THEN Panic("slice index")
          ELSE
            LET r == ParseBlock(Slice(payload, block_start_index, block_end_index))
            IN  IF r.res = "panic" THEN r
                ELSE IF block_number >= MAX_DCP_BLOCK_NUMBER
                THEN Panic("index out of bounds")
                ELSE ParseBlocksNoPad(payload, data_length,
                        block_end_index,
                        block_number + 1,
                        [blocks EXCEPT ![block_number + 1] =
                            IF r.res = "ok" THEN Some(r.v) ELSE None],
                        checks)

\* the while loop of Dcp::parse.  checks: the build traps integer overflow
\* (debug); otherwise u16 arithmetic wraps (release).
RECURSIVE ParseBlocks(_, _, _, _, _, _)
ParseBlocks(payload, data_length, block_start_index, block_number, blocks, checks) ==
    IF ~(block_start_index < data_length)
    THEN Ok([number_of_blocks |-> block_number, blocks |-> blocks])
    ELSE IF block_start_index + 4 > Len(payload)
    THEN Panic("slice index")
    ELSE
      LET declared == ReadU16(payload, block_start_index + 2)
          block_length == (declared + 4) % 65536
          block_end_index == block_start_index + block_length
      IN  IF checks /\ declared + 4 > 65535 THEN Panic("attempt to add with overflow")
          ELSE IF block_end_index > Len(payload) THEN Panic("slice index")
          ELSE
            LET r == ParseBlock(Slice(payload, block_start_index, block_end_index))
            IN  IF r.res = "panic" THEN r
                ELSE IF block_number >= MAX_DCP_BLOCK_NUMBER
                THEN Panic("index out of bounds")
                ELSE ParseBlocks(payload, data_length,
                        block_end_index + (IF block_length % 2 # 0 THEN 1 ELSE 0),
                        block_number + 1,
                        [blocks EXCEPT ![block_number + 1] =
                            IF r.res = "ok" THEN Some(r.v) ELSE None],
                        checks)

\* Dcp::parse
DcpParse(frame, checks) ==
    IF ~DcpFrameIdTry(FrameIdU16(frame)).some THEN Err("FrameIdError")
    ELSE
      LET header == DcpHeaderParse(FramePayload(frame))
      IN  IF header.res # "ok" THEN Err("HeaderError")
          ELSE
            LET payload == Slice(FramePayload(frame), DCP_HEADER_LENGTH_FIELD,
                                 Len(FramePayload(frame)))
                r == ParseBlocks(payload, header.v.data_length, 0, 0, NoBlocks, checks)
            IN  IF r.res # "ok" THEN r
                ELSE Ok([destination |-> FrameDstAddress(frame),
                         source |-> FrameSrcAddress(frame),
                         eth_type |-> FrameEthType(frame),
                         frame_id |-> DcpFrameIdTry(FrameIdU16(frame)).v,
                         header |-> header.v,
                         number_of_blocks |-> r.v.number_of_blocks,
                         blocks |-> r.v.blocks])

\* the number of times the while loop of Dcp::parse calls parse_block: the
\* call is made before blocks[block_number] is indexed
RECURSIVE ParseBlockCalls(_, _, _, _, _)
ParseBlockCalls(payload, data_length, block_start_index, block_number, checks) ==
    IF ~(block_start_index < data_length) THEN 0
    ELSE IF block_start_index + 4 > Len(payload) THEN 0
    ELSE
      LET declared == ReadU16(payload, block_start_index + 2)
          block_length == (declared + 4) % 65536
          block_end_index == block_start_index + block_length
      IN  IF checks /\ declared + 4 > 65535 THEN 0
          ELSE IF block_end_index > Len(payload) THEN 0
          ELSE IF \/ ParseBlock(Slice(payload, block_start_index,
                                      block_end_index)).res = "panic"
                  \/ block_number >= MAX_DCP_BLOCK_NUMBER
          THEN 1
          ELSE 1 + ParseBlockCalls(payload, data_length,
                      block_end_index + (IF block_length % 2 # 0 THEN 1 ELSE 0),
                      block_number + 1, checks)

\* the parse_block calls of one Dcp::parse
DcpParseCalls(frame, checks) ==
    IF ~DcpFrameIdTry(FrameIdU16(frame)).some THEN 0
    ELSE
      LET header == DcpHeaderParse(FramePayload(frame))
      IN  IF header.res # "ok" THEN 0
          ELSE ParseBlockCalls(Slice(FramePayload(frame), DCP_HEADER_LENGTH_FIELD,
                                     Len(FramePayload(frame))),
                               header.v.data_length, 0, 0, checks)

\* Dcp::dst_is_hello
DstIsHello(dcp) == dcp.destination = DCP_MAC_HELLO_ADDRESS

\* Block::encode_into and the IpBlock / DevicePropertiesBlock encoders: the
\* writes into the block's slice, in order, as <<offset, bytes>>
BlockWrites(b) ==
    CASE b.t = "All" -> << <<0, <<255>>>>, <<1, <<255>>>> >>
      [] b.t = "MacAddress" ->
            << <<0, <<1>>>>, <<4, WriteU16(1)>>, <<1, <<1>>>>, <<2, WriteU16(8)>>,
               <<6, b.address>> >>
      [] b.t = "IpParameter" ->
            << <<0, <<1>>>>, <<4, WriteU16(1)>>, <<1, <<2>>>>, <<2, WriteU16(14)>>,
               <<6, b.ip_address>>, <<10, b.subnet_mask>>, <<14, b.gateway>> >>
      [] b.t = "FullIpSuite" ->
            << <<0, <<1>>>>, <<4, WriteU16(1)>>, <<1, <<3>>>>, <<2, WriteU16(20)>>,
               <<6, b.ip_address>>, <<10, b.subnet_mask>>, <<14, b.gateway>>,
               <<18, b.dns>> >>
      [] b.t = "DeviceVendor" ->
            << <<0, <<2>>>>, <<4, WriteU16(0)>>, <<1, <<1>>>>,
               <<2, WriteU16((b.length % 65536) + 2)>>,
               <<6, Slice(b.vendor, 0, b.length)>> >>
      [] b.t = "NameOfStation" ->
            << <<0, <<2>>>>, <<4, WriteU16(0)>>, <<1, <<2>>>>,
               <<2, WriteU16((b.length % 65536) + 2)>>,
               <<6, Slice(b.name, 0, b.length)>> >>
      [] b.t = "DeviceId" ->
            << <<0, <<2>>>>, <<4, WriteU16(0)>>, <<1, <<3>>>>, <<2, WriteU16(4 + 2)>>,
               <<6, WriteU16(b.vendor_id)>>, <<8, WriteU16(b.device_id)>> >>
      [] b.t = "DeviceRole" ->
            << <<0, <<2>>>>, <<4, WriteU16(0)>>, <<1, <<4>>>>, <<2, WriteU16(4)>>,
               <<6, <<DeviceRoleAsU8(b.role)>>>> >>
      [] b.t = "DeviceOptions" ->
            << <<0, <<2>>>>, <<4, WriteU16(0)>>, <<1, <<5>>>>, <<2, WriteU16(4)>>,
               <<6, <<2>>>>, <<7, <<7>>>> >>
      [] b.t = "AliasName" ->
            << <<0, <<2>>>>, <<4, WriteU16(0)>>, <<1, <<6>>>>, <<2, WriteU16(3)>>,
               <<6, <<0>>>> >>
      [] b.t = "DeviceInstance" ->
            << <<0, <<2>>>>, <<4, WriteU16(0)>>, <<1, <<7>>>>, <<2, WriteU16(2 + 2)>>,
               <<6, <<b.high, b.low>>>> >>
      [] b.t = "OemDeviceId" ->
            << <<0, <<2>>>>, <<4, WriteU16(0)>>, <<1, <<8>>>>, <<2, WriteU16(3)>>,
               <<6, <<0>>>> >>
      [] b.t = "StandardGateway" ->
            << <<0, <<2>>>>, <<4, WriteU16(0)>>, <<1, <<9>>>>, <<2, WriteU16(3)>>,
               <<6, <<0>>>> >>
      [] b.t = "RsiProperties" ->
            << <<0, <<2>>>>, <<4, WriteU16(0)>>, <<1, <<10>>>>, <<2, WriteU16(3)>>,
               <<6, <<0>>>> >>

\* the writes of one block moved to the block's place in the frame buffer
RECURSIVE ShiftWrites(_, _)
ShiftWrites(ws, base) ==
    IF ws = <<>> THEN <<>>
    ELSE <<<<base + Head(ws)[1], Head(ws)[2]>>>> \o ShiftWrites(Tail(ws), base)

\* the block loop of Dcp::encode_into: every write of every block, in order
RECURSIVE FrameBlockWrites(_, _, _)
FrameBlockWrites(blocks, k, current_block_index) ==
    IF k > Len(blocks) THEN <<>>
    ELSE IF ~blocks[k].some THEN FrameBlockWrites(blocks, k + 1, current_block_index)
    ELSE ShiftWrites(BlockWrites(blocks[k].v.block),
                     ETH_PAYLOAD_START + DCP_HEADER_LENGTH_FIELD + current_block_index)
            \o FrameBlockWrites(blocks, k + 1,
                                current_block_index + blocks[k].v.block_length)

\* the writes applied to the buffer; a write past the end of the buffer panics
RECURSIVE ApplyWrites(_, _, _)
ApplyWrites(buf, ws, k) ==
    IF k > Len(ws) THEN Ok(buf)
    ELSE IF ws[k][1] + Len(ws[k][2]) > Len(buf) THEN Panic("slice index")
    ELSE ApplyWrites(WriteAt(buf, ws[k][1], ws[k][2]), ws, k + 1)

\* Dcp::encode_into(buffer)
DcpEncodeInto(dcp, buffer) ==
    ApplyWrites(buffer,
        << <<0, dcp.destination>>, <<6, dcp.source>>,
           <<12, WriteU16(EthTypeAsU16(dcp.eth_type))>>,
           <<14, WriteU16(DcpFrameIdAsU16(dcp.frame_id))>>,
           <<ETH_PAYLOAD_START, DcpHeaderEncode(dcp.header)>> >>
          \o FrameBlockWrites(dcp.blocks, 1, 0),
        1)

\* response_delay_time rounding the delay down to the thousand below
ResponseDelayOfRoundDown(response_delay_factor) ==
    IF response_delay_factor \in 0..1 THEN 400
    ELSE LET delay == 1 + response_delay_factor * 10
             rem == delay % 1000
         IN  delay - rem

\* Dcp::response_delay_time as a function of the response delay factor
ResponseDelayOf(response_delay_factor) ==
    IF response_delay_factor \in 0..1 THEN 400
    ELSE LET delay == 1 + response_delay_factor * 10
             rem == delay % 1000
         IN  delay + (1000 - rem)

\* Dcp::response_delay_time
ResponseDelayTime(dcp) == ResponseDelayOf(dcp.header.response_delay_factor)

\* Dcp::new_hello_response(&self, pnet)
NewHelloResponse(request_dcp, cfg) ==
    LET response_dcp_header ==
            DcpHeaderNew("Identify", "Success", request_dcp.header.x_id, 1)
        d0 == DcpNew(request_dcp.source, cfg.ip_config.mac_address,
                     response_dcp_header, "Response")
        d1 == AddBlock(d0, DcpBlockNew([t |-> "DeviceOptions"]))
        d2 == AddBlock(d1, DcpBlockNew([t |-> "NameOfStation",
                                        name |-> cfg.name_of_station,
                                        length |-> cfg.name_of_station_len]))
        d3 == AddBlock(d2, DcpBlockNew([t |-> "DeviceVendor",
                                        vendor |-> cfg.device_vendor,
                                        length |-> cfg.device_vendor_len]))
        d4 == AddBlock(d3, DcpBlockNew([t |-> "DeviceRole", role |-> "IODevice"]))
        d5 == AddBlock(d4, DcpBlockNew([t |-> "DeviceId", vendor_id |-> 4919,
                                        device_id |-> 26985]))
        d6 == AddBlock(d5, DcpBlockNew([t |-> "DeviceInstance", high |-> 66,
                                        low |-> 105]))
        d7 == AddBlock(d6, DcpBlockNew([t |-> "IpParameter",
                                        ip_address |-> cfg.ip_config.ip_address,
                                        subnet_mask |-> cfg.ip_config.subnet_mask,
                                        gateway |-> cfg.ip_config.gateway,
                                        block_info |-> "IpNotSet"]))
    IN  d7

(***************************************************************************)
(* Device identity and the outgoing queue (src/src/lib.rs).                *)
(***************************************************************************)
Slots == 1..OUTGOING_CAPACITY

\* IpConfig::new_not_set / IpConfig::new
IpConfigNew(mac_address, ip_address, subnet_mask, gateway) ==
    [mac_address |-> mac_address, ip_address |-> ip_address,
     subnet_mask |-> subnet_mask, gateway |-> gateway]
IpConfigNewNotSet(mac_address) ==
    IpConfigNew(mac_address, <<0, 0, 0, 0>>, <<0, 0, 0, 0>>, <<0, 0, 0, 0>>)

\* Config::new (the interface and last_update_timestamp are kept apart)
ConfigNew(name_of_station, device_vendor, ip_config) ==
    [name_of_station |->
        PadTo(name_of_station, Len(name_of_station), MAX_NAME_OF_STATION_LENGTH),
     name_of_station_len |-> Len(name_of_station),
     device_vendor |->
        PadTo(device_vendor, Len(device_vendor), MAX_DEVICE_VENDOR_LENGTH),
     device_vendor_len |-> Len(device_vendor),
     ip_config |-> ip_config]

\* the index of the first free slot, 0 when every slot is taken
FirstFree(out) ==
    IF \E i \in Slots : ~out[i].some
    THEN CHOOSE i \in Slots : ~out[i].some /\ \A j \in 1..(i - 1) : out[j].some
    ELSE 0

\* queue_packet reusing the last slot when no slot is free
QueueSlotOverwrite(out) ==
    IF FirstFree(out) = 0 THEN OUTGOING_CAPACITY ELSE FirstFree(out)

\* the slot PNet::queue_packet stores into, 0 for none
QueueSlot(out) == FirstFree(out)

\* PNet::queue_packet(data, send_at); id tells the queued packets apart
QueuePacket(out, data, send_at, id) ==
    LET packet_out == [data |-> data, length |-> Len(data), send_at |-> send_at,
                       id |-> id]
        i == QueueSlot(out)
    IN  IF i = 0 THEN out ELSE [out EXCEPT ![i] = Some(packet_out)]

\* the if of PNet::send_queued_packets: the packet is due
IsDue(p, current_timestamp) == current_timestamp >= p.send_at

\* send_queued_packets visiting the slots from the last to the first
ScanOrderReversed == [k \in Slots |-> OUTGOING_CAPACITY + 1 - k]

\* the order in which PNet::send_queued_packets visits the slots
ScanOrder == [k \in Slots |-> k]

\* the Ok arm forgetting to clear the slot
AfterSendKeep(slot) == slot

\* the Ok arm of PNet::send_queued_packets: what the slot holds afterwards
AfterSend(slot) == None

\* PNet::send_queued_packets(current_timestamp), the transport refusing the
\* packets of the slots in failing: the queue afterwards and the packets
\* transmitted, in order
RECURSIVE SendScan(_, _, _, _, _)
SendScan(out, current_timestamp, failing, k, log) ==
    IF k > OUTGOING_CAPACITY THEN [outgoing_packets |-> out, transmitted |-> log]
    ELSE
      LET i == ScanOrder[k]
      IN  IF out[i].some /\ IsDue(out[i].v, current_timestamp) /\ i \notin failing
          THEN SendScan([out EXCEPT ![i] = AfterSend(out[i])], current_timestamp,
                        failing, k + 1,
                        Append(log, [slot |-> i, id |-> out[i].v.id,
                                     send_at |-> out[i].v.send_at,
                                     length |-> out[i].v.length,
                                     at |-> current_timestamp]))
          ELSE SendScan(out, current_timestamp, failing, k + 1, log)

SendQueuedPackets(out, current_timestamp, failing) ==
    SendScan(out, current_timestamp, failing, 1, <<>>)

(***************************************************************************)
(* Request dispatcher (Dcp::handle_frame).                                 *)
(***************************************************************************)
\* the GetSet arm without the update_interface call of the IP blocks
RECURSIVE ApplySetBlocksSilent(_, _, _)
ApplySetBlocksSilent(st, blocks, k) ==
    IF k > Len(blocks) THEN st
    ELSE IF ~blocks[k].some THEN ApplySetBlocksSilent(st, blocks, k + 1)
    ELSE
      LET b == blocks[k].v.block
      IN  CASE b.t = "NameOfStation" ->
                ApplySetBlocksSilent([st EXCEPT !.config.name_of_station = b.name,
                                                !.config.name_of_station_len = b.length],
                                     blocks, k + 1)
            [] b.t \in {"IpParameter", "FullIpSuite"} ->
                ApplySetBlocksSilent(
                    [st EXCEPT !.config.ip_config.ip_address = b.ip_address,
                               !.config.ip_config.subnet_mask = b.subnet_mask,
                               !.config.ip_config.gateway = b.gateway],
                    blocks, k + 1)
            [] OTHER -> ApplySetBlocksSilent(st, blocks, k + 1)

\* the GetSet arm writing the MacAddress and DeviceVendor blocks as well
RECURSIVE ApplySetBlocksAll(_, _, _)
ApplySetBlocksAll(st, blocks, k) ==
    IF k > Len(blocks) THEN st
    ELSE IF ~blocks[k].some THEN ApplySetBlocksAll(st, blocks, k + 1)
    ELSE
      LET b == blocks[k].v.block
      IN  CASE b.t = "NameOfStation" ->
                ApplySetBlocksAll([st EXCEPT !.config.name_of_station = b.name,
                                             !.config.name_of_station_len = b.length],
                                  blocks, k + 1)
            [] b.t \in {"IpParameter", "FullIpSuite"} ->
                ApplySetBlocksAll(
                    [st EXCEPT !.config.ip_config.ip_address = b.ip_address,
                               !.config.ip_config.subnet_mask = b.subnet_mask,
                               !.config.ip_config.gateway = b.gateway,
                               !.interface = b.ip_address,
                               !.update_calls = @ + 1],
                    blocks, k + 1)
            [] b.t = "MacAddress" ->
                ApplySetBlocksAll([st EXCEPT !.config.ip_config.mac_address = b.address],
                                  blocks, k + 1)
            [] b.t = "DeviceVendor" ->
                ApplySetBlocksAll([st EXCEPT !.config.device_vendor = b.vendor,
                                             !.config.device_vendor_len = b.length],
                                  blocks, k + 1)
            [] OTHER -> ApplySetBlocksAll(st, blocks, k + 1)

\* the GetSet arm withdrawing the queued responses when it changes the identity
RECURSIVE ApplySetBlocksWithdraw(_, _, _)
ApplySetBlocksWithdraw(st, blocks, k) ==
    IF k > Len(blocks) THEN st
    ELSE IF ~blocks[k].some THEN ApplySetBlocksWithdraw(st, blocks, k + 1)
    ELSE
      LET b == blocks[k].v.block
      IN  CASE b.t = "NameOfStation" ->
                ApplySetBlocksWithdraw([st EXCEPT !.config.name_of_station = b.name,
                                          !.config.name_of_station_len = b.length,
                                          !.outgoing_packets = [i \in Slots |-> None]],
                               blocks, k + 1)
            [] b.t \in {"IpParameter", "FullIpSuite"} ->
                ApplySetBlocksWithdraw([st EXCEPT !.config.ip_config.ip_address = b.ip_address,
                                          !.config.ip_config.subnet_mask = b.subnet_mask,
                                          !.config.ip_config.gateway = b.gateway,
                                          !.interface = b.ip_address,
                                          !.update_calls = @ + 1,
                                          !.outgoing_packets = [i \in Slots |-> None]],
                               blocks, k + 1)
            [] OTHER -> ApplySetBlocksWithdraw(st, blocks, k + 1)

\* the GetSet arm: the blocks are applied in order to the identity; every
\* IpParameter / FullIpSuite block calls update_interface
RECURSIVE ApplySetBlocks(_, _, _)
ApplySetBlocks(st, blocks, k) ==
    IF k > Len(blocks) THEN st
    ELSE IF ~blocks[k].some THEN ApplySetBlocks(st, blocks, k + 1)
    ELSE
      LET b == blocks[k].v.block
      IN  CASE b.t = "NameOfStation" ->
                ApplySetBlocks([st EXCEPT !.config.name_of_station = b.name,
                                          !.config.name_of_station_len = b.length],
                               blocks, k + 1)
            [] b.t \in {"IpParameter", "FullIpSuite"} ->
                ApplySetBlocks([st EXCEPT !.config.ip_config.ip_address = b.ip_address,
                                          !.config.ip_config.subnet_mask = b.subnet_mask,
                                          !.config.ip_config.gateway = b.gateway,
                                          !.interface = b.ip_address,
                                          !.update_calls = @ + 1],
                               blocks, k + 1)
            [] OTHER -> ApplySetBlocks(st, blocks, k + 1)

\* the condition under which the Request arm builds a response
AnswersRequest(request_dcp) ==
    /\ DstIsHello(request_dcp)
    /\ request_dcp.number_of_blocks > 0
    /\ request_dcp.blocks[1].some
    /\ request_dcp.blocks[1].v.block = [t |-> "All"]

\* Dcp::handle_frame(pnet, frame, current_timestamp) on the device state st,
\* parsed being the result of Dcp::parse(&frame): the state afterwards, with
\* panicked set when the handler panicked
HandleFrame(st, parsed, current_timestamp, id) ==
        IF parsed.res = "panic" THEN [st EXCEPT !.panicked = TRUE]
        ELSE IF parsed.res = "err" THEN st
        ELSE
          LET request_dcp == parsed.v
          IN  CASE request_dcp.frame_id = "Request" ->
                    IF AnswersRequest(request_dcp)
                    THEN LET response_dcp == NewHelloResponse(request_dcp, st.config)
                             encoded == DcpEncodeInto(response_dcp,
                                                      Zeros(RESPONSE_BUF_LEN))
                         IN  IF encoded.res = "panic"
                             THEN [st EXCEPT !.panicked = TRUE,
                                             !.response = Some(response_dcp)]
                             ELSE [st EXCEPT
                                     !.response = Some(response_dcp),
                                     !.queue_calls = @ + 1,
                                     !.outgoing_packets =
                                        QueuePacket(@, encoded.v,
                                            current_timestamp
                                                + ResponseDelayTime(request_dcp),
                                            id)]
                    ELSE st
                [] request_dcp.frame_id = "GetSet" ->
                    ApplySetBlocks(st, request_dcp.blocks, 1)
                [] OTHER -> st

\* PNet::handle_incoming_packet up to the dispatch, for the packet p that
\* recv_next returned: what the handler reads from the frame, and the result
\* of Dcp::parse on it in either build
Received(p) ==
    IF Len(p) > PACKET_BUF_LEN THEN [too_long |-> TRUE]
    ELSE
      LET packet_buf == PadTo(p, Len(p), PACKET_BUF_LEN)
          frame_in == EthernetFrameNewChecked(packet_buf).v
      IN  [too_long |-> FALSE,
           dst_address |-> FrameDstAddress(frame_in),
           is_profinet |-> FrameIsProfinet(frame_in),
           frame_id |-> FrameIdFrom(FrameIdU16(frame_in)),
           parsed |-> [checks \in BOOLEAN |-> DcpParse(frame_in, checks)]]

\* handle_incoming_packet without the test of the destination address
HandleIncomingPacketUnfiltered(st, rx, current_timestamp, checks, id) ==
    IF rx.too_long THEN [st EXCEPT !.panicked = TRUE]
    ELSE IF ~rx.is_profinet THEN st
    ELSE IF rx.frame_id = "Dcp"
         THEN HandleFrame(st, rx.parsed[checks], current_timestamp, id)
         ELSE st

\* PNet::handle_incoming_packet(current_timestamp), rx being Received(p)
HandleIncomingPacket(st, rx, current_timestamp, checks, id) ==
    IF rx.too_long THEN [st EXCEPT !.panicked = TRUE]
    ELSE IF /\ rx.dst_address # st.config.ip_config.mac_address
            /\ rx.dst_address # DCP_MAC_HELLO_ADDRESS
    THEN st
    ELSE IF ~rx.is_profinet THEN st
    ELSE IF rx.frame_id = "Dcp"
         THEN HandleFrame(st, rx.parsed[checks], current_timestamp, id)
         ELSE st

(***************************************************************************)
(* The frames the transport delivers: each is described by its fields and  *)
(* built byte by byte as a controller puts it on the wire.                 *)
(***************************************************************************)
OWN_MAC == <<0, 0, 35, 83, 78, 254>>
CONTROLLER_MAC == <<82, 84, 0, 138, 59, 165>>
OTHER_MAC == <<2, 18, 35, 83, 78, 250>>

\* a block on the wire: option, suboption, declared length, the bytes after
\* the length field
RawBlock(option, suboption, body) ==
    [option |-> option, suboption |-> suboption, declared |-> Len(body), body |-> body]
RawBlockBytes(b) ==
    LET bytes == <<b.option, b.suboption>> \o WriteU16(b.declared) \o b.body
    IN  IF Len(bytes) % 2 = 1 THEN bytes \o <<0>> ELSE bytes
RECURSIVE RawBlocksBytes(_, _)
RawBlocksBytes(blocks, k) ==
    IF k > Len(blocks) THEN <<>>
    ELSE RawBlockBytes(blocks[k]) \o RawBlocksBytes(blocks, k + 1)

AllSelector == RawBlock(255, 255, <<>>)
\* a run of n letters
Letters(n) == [k \in 1..n |-> 97 + (k % 26)]
NameBlock(name) == RawBlock(2, 2, <<0, 1>> \o name)
IpParameterBlock(ip, mask, gw) == RawBlock(1, 2, <<0, 1>> \o ip \o mask \o gw)

FullIpSuiteBlock(ip, mask, gw, dns) ==
    RawBlock(1, 3, <<0, 1>> \o ip \o mask \o gw \o dns)

FrameDescr(dst, src, vlan, eth_type, frame_id, service_id, service_type, x_id, rdf, blocks) ==
    [dst |-> dst, src |-> src, vlan |-> vlan, eth_type |-> eth_type,
     frame_id |-> frame_id, service_id |-> service_id,
     service_type |-> service_type, x_id |-> x_id, rdf |-> rdf, blocks |-> blocks,
     data_length |-> Len(RawBlocksBytes(blocks, 1))]

FrameBytes(d) ==
    d.dst \o d.src
      \o (IF d.vlan THEN WriteU16(33024) \o <<0, 0>> ELSE <<>>)
      \o WriteU16(d.eth_type) \o WriteU16(d.frame_id)
      \o <<d.service_id, d.service_type>> \o WriteU32(d.x_id) \o WriteU16(d.rdf)
      \o WriteU16(d.data_length) \o RawBlocksBytes(d.blocks, 1)

\* Identify request of the controller with the given XID and delay factor
IdentifyDescr(x_id, rdf) ==
    FrameDescr(DCP_MAC_HELLO_ADDRESS, CONTROLLER_MAC, FALSE, 34962, 65278, 5, 0,
               x_id, rdf, <<AllSelector>>)

LongNameLen == MAX_NAME_OF_STATION_LENGTH

\* GetSet frame of the controller to the device with the given XID, ServiceID
\* and block list
SetDescr(x_id, service_id, blocks) ==
    FrameDescr(OWN_MAC, CONTROLLER_MAC, FALSE, 34962, 65277, service_id, 0, x_id, 0,
               blocks)

\* n copies of one block
Repeat(b, n) == [k \in 1..n |-> b]
\* a block whose option (0x7E) is no DCP option
UnknownOptionBlock == RawBlock(126, 1, <<0, 0>>)
\* frame with the addressing and header of an Identify request and the given
\* block list
IdentifyBlocks(x_id, blocks) ==
    FrameDescr(DCP_MAC_HELLO_ADDRESS, CONTROLLER_MAC, FALSE, 34962, 65278, 5, 0,
               x_id, 0, blocks)

FrameTable ==
    [IdentifyRdf0 |-> IdentifyDescr(5, 0),
     IdentifyRdf7 |-> IdentifyDescr(358, 7),
     IdentifyVlan |->
        [IdentifyDescr(7, 1) EXCEPT !.vlan = TRUE, !.src = OTHER_MAC],
     IdentifyServiceGet |-> [IdentifyDescr(8, 0) EXCEPT !.service_id = 3],
     IdentifyAllAndName |->
        FrameDescr(DCP_MAC_HELLO_ADDRESS, CONTROLLER_MAC, FALSE, 34962, 65278, 5, 0,
                   9, 0, <<AllSelector, NameBlock(Letters(3))>>),
     IdentifyByName |->
        FrameDescr(DCP_MAC_HELLO_ADDRESS, CONTROLLER_MAC, FALSE, 34962, 65278, 5, 0,
                   10, 0, <<RawBlock(2, 2, Letters(4))>>),
     IdentifyUnicast |-> [IdentifyDescr(11, 0) EXCEPT !.dst = OWN_MAC],
     IdentifyNoBlocks |->
        FrameDescr(DCP_MAC_HELLO_ADDRESS, CONTROLLER_MAC, FALSE, 34962, 65278, 5, 0,
                   12, 0, <<>>),
     HelloAll |-> [IdentifyDescr(13, 0) EXCEPT !.frame_id = 65276, !.service_id = 6],
     ResponseAll |->
        [IdentifyDescr(14, 0) EXCEPT !.frame_id = 65279, !.service_type = 1],
     GetSetAll |->
        [IdentifyDescr(15, 0) EXCEPT !.frame_id = 65277, !.service_id = 3],
     NotProfinet |-> [IdentifyDescr(16, 0) EXCEPT !.eth_type = 2048],
     OtherDestination |-> [IdentifyDescr(17, 0) EXCEPT !.dst = OTHER_MAC],
     SetName |->
        FrameDescr(OWN_MAC, CONTROLLER_MAC, FALSE, 34962, 65277, 4, 0, 18, 0,
                   <<NameBlock(Letters(5))>>),
     SetLongName |->
        FrameDescr(OWN_MAC, CONTROLLER_MAC, FALSE, 34962, 65277, 4, 0, 19, 0,
                   <<NameBlock(Letters(LongNameLen))>>),
     SetIp |->
        FrameDescr(OWN_MAC, CONTROLLER_MAC, FALSE, 34962, 65277, 4, 0, 20, 0,
                   <<IpParameterBlock(<<192, 168, 1, 50>>, <<255, 255, 255, 0>>,
                                      <<192, 168, 1, 1>>)>>),
     Blocks32 |-> IdentifyBlocks(21, Repeat(AllSelector, MAX_DCP_BLOCK_NUMBER)),
     Blocks33 |-> IdentifyBlocks(22, Repeat(AllSelector, MAX_DCP_BLOCK_NUMBER + 1)),
     UnknownOptionThenAll |-> IdentifyBlocks(23, <<UnknownOptionBlock, AllSelector>>),
     AllThenUnknownOption |-> IdentifyBlocks(24, <<AllSelector, UnknownOptionBlock>>),
     SetUnknownOptionThenName |->
        FrameDescr(OWN_MAC, CONTROLLER_MAC, FALSE, 34962, 65277, 4, 0, 25, 0,
                   <<UnknownOptionBlock, NameBlock(Letters(5))>>),
     DhcpBlock |-> IdentifyBlocks(26, <<AllSelector, RawBlock(3, 61, <<0, 0>>)>>),
     ControlBlock |-> IdentifyBlocks(27, <<AllSelector, RawBlock(5, 1, <<0, 0>>)>>),
     DeviceInitiativeBlock |->
        IdentifyBlocks(28, <<AllSelector, RawBlock(6, 1, <<0, 0>>)>>),
     NmeDomainBlock |-> IdentifyBlocks(29, <<AllSelector, RawBlock(7, 1, <<0, 0>>)>>),
     ManufacturerBlock |->
        IdentifyBlocks(30, <<AllSelector, RawBlock(128, 1, <<0, 0>>)>>),
     NameDeclaredZero |-> IdentifyBlocks(31, <<RawBlock(2, 2, <<>>)>>),
     NameDeclaredOne |-> IdentifyBlocks(32, <<RawBlock(2, 2, <<0>>)>>),
     SetOvershoot |->
        [FrameDescr(OWN_MAC, CONTROLLER_MAC, FALSE, 34962, 65277, 4, 0, 33, 0,
                    <<NameBlock(Letters(5))>>) EXCEPT !.data_length = 4],
     SetFullIp |->
        SetDescr(34, 4, <<FullIpSuiteBlock(<<10, 0, 0, 7>>, <<255, 0, 0, 0>>,
                                           <<10, 0, 0, 1>>, <<10, 0, 0, 2>>)>>),
     GetName |-> SetDescr(35, 3, <<NameBlock(Letters(6))>>),
     SetMac |-> SetDescr(36, 4, <<RawBlock(1, 1, <<0, 1>> \o OTHER_MAC)>>),
     SetVendor |-> SetDescr(37, 4, <<RawBlock(2, 1, <<0, 1>> \o Letters(7))>>),
     SetTooLongName |-> SetDescr(38, 4, <<NameBlock(Letters(LongNameLen + 1))>>)]

FrameNames == DOMAIN FrameTable
\* the GetSet frames that exercise the identity state
IdentityFrames == {"SetFullIp", "GetName", "SetMac", "SetVendor", "SetTooLongName"}
\* the frames a conforming controller does not send
MalformedFrames ==
    {"Blocks32", "Blocks33", "UnknownOptionThenAll", "AllThenUnknownOption",
     "SetUnknownOptionThenName", "DhcpBlock", "ControlBlock",
     "DeviceInitiativeBlock", "NmeDomainBlock", "ManufacturerBlock",
     "NameDeclaredZero", "NameDeclaredOne", "SetOvershoot"}
NoFrame == "NoFrame"

\* the bytes recv_next returns for each frame
WireBytes == [n \in FrameNames |-> FrameBytes(FrameTable[n])]

\* each frame as handle_incoming_packet sees it
ReceivedFrame == [n \in FrameNames |-> Received(WireBytes[n])]

\* the parse_block calls Dcp::parse makes for each frame
ParseCalls ==
    [n \in FrameNames |->
        [checks \in BOOLEAN |->
            DcpParseCalls(EthernetFrameNewChecked(
                PadTo(WireBytes[n], Len(WireBytes[n]), PACKET_BUF_LEN)).v, checks)]]

\* what the controller means by a Set request: FrameID GetSet, ServiceID Set,
\* ServiceType Request, in a PROFINET frame sent to the device
IsSetRequest(d) ==
    /\ d.eth_type = 34962
    /\ d.frame_id = 65277
    /\ d.service_id = 4
    /\ d.service_type = 0
    /\ d.dst = OWN_MAC

\* the name and addresses after the blocks k.. of a Set request were written
\* over ls: NameOfStation writes the name, IpParameter and FullIpSuite the
\* address, subnet mask and gateway (each block body starts with BlockInfo)
RECURSIVE WrittenBy(_, _, _)
WrittenBy(blocks, k, ls) ==
    IF k > Len(blocks) THEN ls
    ELSE
      LET b == blocks[k]
      IN  WrittenBy(blocks, k + 1,
            CASE b.option = 2 /\ b.suboption = 2 ->
                    [ls EXCEPT !.name = SubSeq(b.body, 3, Len(b.body))]
              [] b.option = 1 /\ b.suboption \in {2, 3} ->
                    [ls EXCEPT !.ip_address = SubSeq(b.body, 3, 6),
                               !.subnet_mask = SubSeq(b.body, 7, 10),
                               !.gateway = SubSeq(b.body, 11, 14)]
              [] OTHER -> ls)

\* what the controller means by an Identify request: FrameID Request,
\* ServiceID Identify, sent to the DCP multicast address, carried in a
\* PROFINET frame, with a block list of exactly one All selector
IsIdentifyRequest(d) ==
    /\ d.eth_type = 34962
    /\ d.frame_id = 65278
    /\ d.service_id = 5
    /\ d.dst = DCP_MAC_HELLO_ADDRESS
    /\ d.blocks = <<AllSelector>>

(***************************************************************************)
(* Bounds of the model.                                                    *)
(***************************************************************************)
\* handle_periodic calls per run, by specification
MaxTicks == 3
MaxTicksQueue == 4
MaxTicksFull == 10
\* the clock stops advancing here
MaxTime == 1400
\* transmissions the transport refuses per run
MaxTxFail == 1
\* by how much the clock advances between two handle_periodic calls
Advances == {0, 400, 1000}

(***************************************************************************)
(* State.                                                                  *)
(***************************************************************************)
VARIABLES
    config,            \* PNet.config: the identity (Config, IpConfig)
    interface,         \* the address update_interface gave the interface
    outgoing_packets,  \* PNet.outgoing_packets: [Option<OutgoingPacket>; 8]
    panicked,          \* a handler panicked: the device has stopped
    overflow_checks,   \* the build traps integer overflow (debug profile)
    now,               \* current_timestamp of the latest handle_periodic
    pc,                \* "idle", or "send": handle_periodic is between
                       \* handle_incoming_packet and send_queued_packets
    packet_in,         \* the frame recv_next returned in this tick, or NoFrame
    response,          \* response_dcp of the latest handle_frame, if built
    update_calls,      \* update_interface calls of the latest handle_frame
    sent,              \* the packets the transport accepted, in order
    tx_failed,         \* the slots whose send failed in the latest tick
    txfails,           \* transmissions refused so far
    ntick,             \* handle_periodic calls so far
    next_id,           \* queue_packet calls so far
    dropped,           \* ids of the responses queue_packet found no slot for
    call_arg,          \* argument of the function under test (pure functions)
    call_ret,          \* its result
    last_set,          \* the name and addresses the controller's latest Set
                       \* requests wrote, the initial ones before any
    tasks,             \* Scheduler.tasks: [Option<Task>; MAX_SCHEDULER_TASKS]
    added,             \* the add_task calls made so far, in order
    callbacks          \* the callbacks tick has run so far, in order

vars ==
    <<config, interface, outgoing_packets, panicked, overflow_checks, now, pc,
      packet_in, response, update_calls, sent, tx_failed, txfails, ntick, next_id,
      dropped, call_arg, call_ret, last_set, tasks, added, callbacks>>

\* the identities the device is constructed with
InitConfigs ==
    {ConfigNew(<<116, 101, 115, 116>>, <<97, 115, 100>>, IpConfigNewNotSet(OWN_MAC)),
     ConfigNew(<<112, 108, 99>>, <<83, 55>>,
               IpConfigNew(OWN_MAC, <<192, 168, 0, 1>>, <<255, 255, 255, 0>>,
                           <<0, 0, 0, 0>>))}

\* PNet::new followed by PNet::init
InitDevice ==
    /\ config \in InitConfigs
    /\ interface = config.ip_config.ip_address
    /\ outgoing_packets = [i \in Slots |-> None]
    /\ panicked = FALSE
    /\ overflow_checks \in BOOLEAN
    /\ now = 0
    /\ packet_in = NoFrame
    /\ response = None
    /\ update_calls = 0
    /\ sent = <<>>
    /\ tx_failed = {}
    /\ txfails = 0
    /\ ntick = 0
    /\ next_id = 0
    /\ dropped = {}
    /\ last_set = [name |-> SubSeq(config.name_of_station, 1,
                                    config.name_of_station_len),
                   ip_address |-> config.ip_config.ip_address,
                   subnet_mask |-> config.ip_config.subnet_mask,
                   gateway |-> config.ip_config.gateway]
    /\ tasks = [i \in 1..MAX_SCHEDULER_TASKS |-> None]
    /\ added = <<>>
    /\ callbacks = <<>>

Init ==
    /\ InitDevice
    /\ pc = "idle"
    /\ call_arg = None
    /\ call_ret = None

\* the device state the handlers work on
DeviceState ==
    [config |-> config, interface |-> interface,
     outgoing_packets |-> outgoing_packets, panicked |-> FALSE,
     response |-> None, update_calls |-> 0, queue_calls |-> 0]

\* PNet::handle_periodic(current_timestamp), first half: recv_next is polled
\* once and handle_incoming_packet runs on what it returned (NoFrame: recv_next
\* had nothing); the clock has advanced by a since the previous call
Poll(frames, advances, maxticks) ==
    /\ pc = "idle"
    /\ ~panicked
    /\ ntick < maxticks
    /\ \E a \in advances, f \in frames :
        /\ now + a <= MaxTime
        /\ LET st == IF f = NoFrame THEN DeviceState
                     ELSE HandleIncomingPacket(DeviceState, ReceivedFrame[f], now + a,
                                               overflow_checks, next_id + 1)
           IN  /\ now' = now + a
               /\ packet_in' = f
               /\ ntick' = ntick + 1
               /\ config' = st.config
               /\ interface' = st.interface
               /\ outgoing_packets' = st.outgoing_packets
               /\ panicked' = st.panicked
               /\ response' = st.response
               /\ update_calls' = st.update_calls
               /\ next_id' = next_id + st.queue_calls
               /\ dropped' = IF st.queue_calls > 0 /\ FirstFree(outgoing_packets) = 0
                             THEN dropped \cup {next_id + 1} ELSE dropped
               /\ pc' = IF st.panicked THEN "idle" ELSE "send"
               /\ last_set' = IF f # NoFrame /\ IsSetRequest(FrameTable[f])
                               THEN WrittenBy(FrameTable[f].blocks, 1, last_set)
                               ELSE last_set
    /\ UNCHANGED <<overflow_checks, sent, tx_failed, txfails, call_arg, call_ret,
                   tasks, added, callbacks>>

\* PNet::handle_periodic, second half: send_queued_packets(current_timestamp);
\* the transport refuses the packets of the slots in failing
Send ==
    /\ pc = "send"
    /\ \E failing \in SUBSET {i \in Slots : outgoing_packets[i].some
                                /\ IsDue(outgoing_packets[i].v, now)} :
        /\ txfails + Cardinality(failing) <= MaxTxFail
        /\ LET r == SendQueuedPackets(outgoing_packets, now, failing)
           IN  /\ outgoing_packets' = r.outgoing_packets
               /\ sent' = sent \o [k \in 1..Len(r.transmitted) |->
                                     [slot |-> r.transmitted[k].slot,
                                      id |-> r.transmitted[k].id,
                                      send_at |-> r.transmitted[k].send_at,
                                      length |-> r.transmitted[k].length,
                                      at |-> r.transmitted[k].at,
                                      tick |-> ntick]]
               /\ tx_failed' = failing
               /\ txfails' = txfails + Cardinality(failing)
    /\ pc' = "idle"
    /\ UNCHANGED <<config, interface, panicked, overflow_checks, now, packet_in,
                   response, update_calls, ntick, next_id, dropped, call_arg,
                   call_ret, last_set,
                   tasks, added, callbacks>>

\* the dispatcher under every frame of the table a controller may send
DispatchAdvances == {400}
Next ==
    Poll((FrameNames \ (MalformedFrames \cup IdentityFrames)) \cup {NoFrame},
         DispatchAdvances, MaxTicks)
        \/ Send
Spec == Init /\ [][Next]_vars

\* the scheduler under Identify requests only, for one identity and one build
InitQueue ==
    /\ Init
    /\ config.ip_config.ip_address = <<0, 0, 0, 0>>
    /\ overflow_checks

QueueFrames == {"IdentifyRdf0", "IdentifyRdf7", NoFrame}
NextQueue == Poll(QueueFrames, Advances, MaxTicksQueue) \/ Send
SpecQueue == InitQueue /\ [][NextQueue]_vars

\* the scheduler filled to its capacity
FullFrames == {"IdentifyRdf0"}
FullAdvances == {0, 400}
NextFull == Poll(FullFrames, FullAdvances, MaxTicksFull) \/ Send
SpecFull == InitQueue /\ [][NextFull]_vars

\* the identity state under Set, Get and Identify requests
MaxTicksSet == 3
InitSet ==
    /\ Init
    /\ overflow_checks
SetFrames ==
    IdentityFrames \cup {"SetName", "SetIp", "SetLongName", "IdentifyRdf0", NoFrame}
NextSet == Poll(SetFrames, DispatchAdvances, MaxTicksSet) \/ Send
SpecSet == InitSet /\ [][NextSet]_vars

\* the device under continuing ticks: once the controller has stopped sending,
\* handle_periodic keeps being called with nothing to receive, the clock
\* advancing until every queued send_at has passed; the transport refuses at
\* most MaxTxFail packets, so it accepts a packet that is offered again
MaxTicksLive == 3
LiveFrames == {"IdentifyRdf0", "IdentifyRdf7", "SetLongName", NoFrame}
DrainTime == MaxTime + ResponseDelayOf(7)
Tick ==
    /\ pc = "idle"
    /\ ~panicked
    /\ now' = IF now + 400 <= DrainTime THEN now + 400 ELSE now
    /\ packet_in' = NoFrame
    /\ response' = None
    /\ update_calls' = 0
    /\ pc' = "send"
    /\ UNCHANGED <<config, interface, outgoing_packets, panicked, overflow_checks,
                   sent, tx_failed, txfails, ntick, next_id, dropped, call_arg,
                   call_ret, last_set,
                   tasks, added, callbacks>>
NextLive == Poll(LiveFrames, DispatchAdvances, MaxTicksLive) \/ Tick \/ Send
SpecLive == InitQueue /\ [][NextLive]_vars /\ WF_vars(Tick) /\ WF_vars(Send)

\* the dispatcher under the malformed frames
MaxTicksParse == 2
ParseFrames == MalformedFrames \cup {"IdentifyRdf0", NoFrame}
NextParse == Poll(ParseFrames, DispatchAdvances, MaxTicksParse) \/ Send
SpecParse == Init /\ [][NextParse]_vars

(***************************************************************************)
(* Dcp::response_delay_time over every response delay factor.              *)
(***************************************************************************)
U16_MAX == 65535

InitDelay ==
    /\ InitDevice
    /\ config = ConfigNew(<<116, 101, 115, 116>>, <<97, 115, 100>>,
                          IpConfigNewNotSet(OWN_MAC))
    /\ overflow_checks = TRUE
    /\ pc = "delay"
    /\ call_arg \in {Some(rdf) : rdf \in 0..U16_MAX}
    /\ call_ret = None

ComputeDelay ==
    /\ pc = "delay"
    /\ ~call_ret.some
    /\ call_ret' = Some(ResponseDelayTime(
            [header |-> DcpHeaderNew("Identify", "Request", 0, call_arg.v)]))
    /\ UNCHANGED <<config, interface, outgoing_packets, panicked, overflow_checks, now,
                   pc, packet_in, response, update_calls, sent, tx_failed, txfails,
                   ntick, next_id, dropped, call_arg, last_set,
                   tasks, added, callbacks>>

SpecDelay == InitDelay /\ [][ComputeDelay]_vars

(***************************************************************************)
(* Properties of the response scheduler.                                   *)
(***************************************************************************)
\* C1: for every response delay factor RDF in 0..65535 the delay d computed by
\* response_delay_time is 400 when RDF <= 1, and otherwise a multiple of 1000
\* with 1 + 10*RDF <= d < 1 + 10*RDF + 1000 (RDF = 7 gives 1000, RDF = 200
\* gives 3000)
C1_DelayLaw ==
    (pc = "delay" /\ call_ret.some) =>
        LET RDF == call_arg.v
            d == call_ret.v
        IN  /\ RDF <= 1 => d = 400
            /\ RDF >= 2 => /\ d % 1000 = 0
                           /\ d >= 1 + 10 * RDF
                           /\ d < 1 + 10 * RDF + 1000
            /\ RDF = 7 => d = 1000
            /\ RDF = 200 => d = 3000

\* the delay of RDF = 200 has been computed and is 3000
C1_Witness ==
    /\ pc = "delay"
    /\ call_arg = Some(200)
    /\ call_ret = Some(3000)

\* handle_periodic has just run handle_incoming_packet on an Identify request
HandledIdentify ==
    /\ pc = "idle"
    /\ ntick' = ntick + 1
    /\ packet_in' # NoFrame
    /\ IsIdentifyRequest(FrameTable[packet_in'])

\* C2: when an Identify request is handled at timestamp now and a slot is
\* free, the response is stored in the lowest free slot with
\* send_at = now + delay(RDF) and every other slot is left unchanged
C2_StoredInLowestFreeSlot ==
    [][(HandledIdentify /\ FirstFree(outgoing_packets) # 0) =>
        LET i == FirstFree(outgoing_packets)
        IN  /\ outgoing_packets'[i].some
            /\ outgoing_packets'[i].v.send_at
                  = now' + ResponseDelayOf(FrameTable[packet_in'].rdf)
            /\ \A j \in Slots \ {i} : outgoing_packets'[j] = outgoing_packets[j]]_vars

\* send_queued_packets has just run
TickDone == pc = "send" /\ pc' = "idle"

\* the packets the transport accepted during the step
NewlySent == {sent'[k].id : k \in (Len(sent) + 1)..Len(sent')}

\* C3: after send_queued_packets(now) completes, every slot that held a
\* packet with send_at <= now has been transmitted and is empty
C3_DueSlotsSentAndEmpty ==
    [][TickDone =>
        \A i \in Slots :
            (outgoing_packets[i].some /\ outgoing_packets[i].v.send_at <= now) =>
                /\ outgoing_packets'[i] = None
                /\ outgoing_packets[i].v.id \in NewlySent]_vars

\* C4: over any sequence of ticks each enqueued packet is successfully
\* transmitted at most once, and never in a tick whose now is less than the
\* packet's send_at
C4_AtMostOnceNeverEarly ==
    \A k \in 1..Len(sent) :
        /\ sent[k].at >= sent[k].send_at
        /\ \A m \in 1..Len(sent) : m # k => sent[m].id # sent[k].id

\* the transport refused a packet once, and every packet enqueued since the
\* start, the refused one included, has been transmitted
C4_Witness ==
    /\ txfails = 1
    /\ Len(sent) >= 2
    /\ Len(sent) = next_id
    /\ \A i \in Slots : ~outgoing_packets[i].some

\* C5: when all 8 slots are occupied, enqueueing a response drops it: the 8
\* slots are unchanged, nothing is overwritten, and the dropped response is
\* never transmitted
C5_FullQueueDrops ==
    [][/\ (HandledIdentify /\ FirstFree(outgoing_packets) = 0) =>
            /\ outgoing_packets' = outgoing_packets
            /\ dropped' = dropped \cup {next_id'}
       /\ \A k \in 1..Len(sent') : sent'[k].id \notin dropped'
       /\ \A i \in Slots :
            outgoing_packets'[i].some => outgoing_packets'[i].v.id \notin dropped']_vars

\* a response was dropped on a full queue, and the 8 queued before it have
\* all been transmitted since
C5_Witness ==
    /\ dropped # {}
    /\ Len(sent) >= OUTGOING_CAPACITY
    /\ \A i \in Slots : ~outgoing_packets[i].some

Enqueued == pc = "idle" /\ ntick' = ntick + 1 /\ next_id' # next_id

\* C7: an Identify response is built and enqueued only for a frame with
\* FrameID Request, ServiceID Identify, destination 01:0E:CF:00:00:00 and a
\* block list of exactly one All selector; every other frame enqueues nothing
C7_OnlyIdentifyAnswered ==
    [][Enqueued =>
        /\ packet_in' # NoFrame
        /\ IsIdentifyRequest(FrameTable[packet_in'])]_vars

\* the kinds of the blocks of a frame, in order
BlockKinds(dcp) ==
    [k \in 1..dcp.number_of_blocks |->
        IF dcp.blocks[k].some THEN dcp.blocks[k].v.block.t ELSE "None"]

\* C8: every Identify response built by new_hello_response contains exactly
\* the seven blocks DeviceOptions, NameOfStation, DeviceVendor, DeviceRole,
\* DeviceId, DeviceInstance, IpParameter in this order; no All block and no IP
\* block other than IpParameter
C8_SevenBlocksInOrder ==
    response.some =>
        /\ response.v.number_of_blocks = 7
        /\ BlockKinds(response.v)
             = <<"DeviceOptions", "NameOfStation", "DeviceVendor", "DeviceRole",
                 "DeviceId", "DeviceInstance", "IpParameter">>
        /\ \A k \in 8..MAX_DCP_BLOCK_NUMBER : ~response.v.blocks[k].some

\* a response was built for the station name a Set request wrote
C8_Witness ==
    /\ response.some
    /\ packet_in = "IdentifyRdf7"
    /\ config.name_of_station_len = 5
    /\ response.v.blocks[2].v.block.length = 5

\* the bytes of the response the latest handle_frame queued, if it queued one
LatestQueued ==
    {outgoing_packets[i].v.data :
        i \in {j \in Slots : /\ ~panicked
                             /\ response.some
                             /\ outgoing_packets[j].some
                             /\ outgoing_packets[j].v.id = next_id}}

\* C9: the Identify response has source MAC = the device's own MAC,
\* destination MAC = the request's source MAC, EtherType PROFINET and FrameID
\* Response (0xFEFF), in the frame built and in the bytes queued
C9_ResponseAddressing ==
    response.some =>
        /\ response.v.source = config.ip_config.mac_address
        /\ response.v.destination = FrameTable[packet_in].src
        /\ response.v.eth_type = "Profinet"
        /\ response.v.frame_id = "Response"
        /\ \A data \in LatestQueued :
            /\ Slice(data, 0, 6) = FrameTable[packet_in].src
            /\ Slice(data, 6, 12) = config.ip_config.mac_address
            /\ ReadU16(data, 12) = 34962
            /\ ReadU16(data, 14) = 65279

\* the response to the tagged request of the other controller is queued
C9_Witness ==
    /\ response.some
    /\ packet_in = "IdentifyVlan"
    /\ response.v.destination = OTHER_MAC
    /\ LatestQueued # {}

\* C10: every response the dispatcher enqueues has ServiceType Success or
\* NotSupported and carries the ServiceID and the XID of the request it
\* answers
C10_ResponseEchoesRequest ==
    [][Enqueued =>
        /\ response'.some
        /\ response'.v.header.service_type \in {"Success", "NotSupported"}
        /\ ServiceIdAsU8(response'.v.header.service_id)
             = FrameTable[packet_in'].service_id
        /\ response'.v.header.x_id = FrameTable[packet_in'].x_id]_vars

(***************************************************************************)
(* Frames built with Dcp::new and add_block, encoded and parsed back.      *)
(***************************************************************************)
\* blocks added per frame
MaxBuiltBlocks == 2
\* the buffer of test_dcp_encoding
BUILD_BUF_LEN == 128

\* one block of every variant
BuildBlocks ==
    {[t |-> "All"],
     [t |-> "MacAddress", address |-> OWN_MAC],
     [t |-> "IpParameter", ip_address |-> <<192, 168, 0, 1>>,
      subnet_mask |-> <<255, 255, 255, 0>>, gateway |-> <<192, 168, 0, 254>>],
     [t |-> "FullIpSuite", ip_address |-> <<192, 168, 0, 1>>,
      subnet_mask |-> <<255, 255, 255, 0>>, gateway |-> <<192, 168, 0, 254>>,
      dns |-> <<8, 8, 8, 8>>],
     [t |-> "DeviceVendor",
      vendor |-> PadTo(Letters(3), 3, MAX_DEVICE_VENDOR_LENGTH), length |-> 3],
     [t |-> "NameOfStation",
      name |-> PadTo(Letters(13), 13, MAX_NAME_OF_STATION_LENGTH), length |-> 13],
     [t |-> "NameOfStation",
      name |-> PadTo(Letters(14), 14, MAX_NAME_OF_STATION_LENGTH), length |-> 14],
     [t |-> "DeviceId", vendor_id |-> 4919, device_id |-> 26985],
     [t |-> "DeviceRole", role |-> "IOController"],
     [t |-> "DeviceOptions"],
     [t |-> "AliasName"],
     [t |-> "DeviceInstance", high |-> 66, low |-> 105],
     [t |-> "OemDeviceId"],
     [t |-> "StandardGateway"],
     [t |-> "RsiProperties"]}

\* the frames Dcp::new starts from
BuildStarts ==
    {DcpNew(DCP_MAC_HELLO_ADDRESS, OWN_MAC,
            DcpHeaderNew("Identify", "Success", 1, 0), "Hello"),
     DcpNew(CONTROLLER_MAC, OWN_MAC,
            DcpHeaderNew("Identify", "Success", 358, 1), "Response"),
     DcpNew(OWN_MAC, CONTROLLER_MAC,
            DcpHeaderNew("Set", "Request", 16909060, U16_MAX), "GetSet")}

\* encode_into a zeroed buffer, then Dcp::parse of that buffer
EncodeAndParse(dcp, checks) ==
    LET encoded == DcpEncodeInto(dcp, Zeros(BUILD_BUF_LEN))
    IN  [encoded |-> encoded,
         parsed |-> IF encoded.res = "ok"
                    THEN DcpParse(EthernetFrameNewChecked(encoded.v).v, checks)
                    ELSE encoded]

InitBuild ==
    /\ InitDevice
    /\ config.ip_config.ip_address = <<0, 0, 0, 0>>
    /\ pc = "build"
    /\ call_arg \in {Some(f) : f \in BuildStarts}
    /\ call_ret = None

\* dcp.add_block(DcpBlock::new(block))
BuildAddBlock ==
    /\ pc = "build"
    /\ call_arg.v.number_of_blocks < MaxBuiltBlocks
    /\ \E b \in BuildBlocks : call_arg' = Some(AddBlock(call_arg.v, DcpBlockNew(b)))
    /\ UNCHANGED <<config, interface, outgoing_packets, panicked, overflow_checks, now,
                   pc, packet_in, response, update_calls, sent, tx_failed, txfails,
                   ntick, next_id, dropped, call_ret, last_set,
                   tasks, added, callbacks>>

\* dcp.encode_into(&mut buffer), then Dcp::parse of the buffer
BuildEncode ==
    /\ pc = "build"
    /\ call_ret' = Some(EncodeAndParse(call_arg.v, overflow_checks))
    /\ pc' = "encoded"
    /\ UNCHANGED <<config, interface, outgoing_packets, panicked, overflow_checks, now,
                   packet_in, response, update_calls, sent, tx_failed, txfails,
                   ntick, next_id, dropped, call_arg, last_set,
                   tasks, added, callbacks>>

NextBuild == BuildAddBlock \/ BuildEncode
SpecBuild == InitBuild /\ [][NextBuild]_vars

(***************************************************************************)
(* Dcp::parse on each frame of the table with and without an 802.1Q tag,   *)
(* from the bytes as they are on the wire and from the receive buffer.     *)
(***************************************************************************)
\* EthernetFrame::new_checked and Dcp::parse on the frame n, tagged or not,
\* padded to the receive buffer or not
ParseAs(n, vlan, padded, checks) ==
    LET bytes == FrameBytes([FrameTable[n] EXCEPT !.vlan = vlan])
        buffer == IF padded THEN PadTo(bytes, Len(bytes), PACKET_BUF_LEN) ELSE bytes
    IN  DcpParse(EthernetFrameNewChecked(buffer).v, checks)

InitVlan ==
    /\ InitDevice
    /\ config.ip_config.ip_address = <<0, 0, 0, 0>>
    /\ pc = "vlan"
    /\ call_arg \in {Some([name |-> n, padded |-> p]) :
                        n \in FrameNames, p \in BOOLEAN}
    /\ call_ret = None

ParseBoth ==
    /\ pc = "vlan"
    /\ ~call_ret.some
    /\ call_ret' = Some(
            [tagged |-> ParseAs(call_arg.v.name, TRUE, call_arg.v.padded,
                                overflow_checks),
             untagged |-> ParseAs(call_arg.v.name, FALSE, call_arg.v.padded,
                                  overflow_checks)])
    /\ UNCHANGED <<config, interface, outgoing_packets, panicked, overflow_checks, now,
                   pc, packet_in, response, update_calls, sent, tx_failed, txfails,
                   ntick, next_id, dropped, call_arg, last_set,
                   tasks, added, callbacks>>

SpecVlan == InitVlan /\ [][ParseBoth]_vars

(***************************************************************************)
(* Properties of the frame, header and block encoders.                     *)
(***************************************************************************)
\* the frame has been encoded without a panic
Encoded == pc = "encoded" /\ call_ret.v.encoded.res = "ok"

\* C11: the ResponseDelayFactor field (header bytes 6..8) of every encoded
\* response is 0, whatever response_delay_factor the in-memory header holds
C11_EncodedDelayIsZero ==
    Encoded => ReadU16(call_ret.v.encoded.v, ETH_PAYLOAD_START + 6) = 0

\* a response whose header holds the delay factor 1 has been encoded
C11_Witness ==
    /\ Encoded
    /\ call_arg.v.frame_id = "Response"
    /\ call_arg.v.header.response_delay_factor = 1
    /\ call_arg.v.number_of_blocks = 2

\* the declared length the encoder writes for a block (bytes 2..4 of the
\* block; the All encoder leaves them as they are, 0 in a fresh buffer)
EncodedDeclared(b) ==
    LET ws == BlockWrites(b)
        at == {k \in 1..Len(ws) : ws[k][1] = 2}
    IN  IF at = {} THEN 0 ELSE ReadU16(ws[CHOOSE k \in at : TRUE][2], 0)

\* the on-wire length of a block: 4 + declared length, plus a pad byte when odd
OnWireLength(b) ==
    LET n == 4 + EncodedDeclared(b)
    IN  n + (n % 2)

RECURSIVE SumOnWire(_, _)
SumOnWire(dcp, k) ==
    IF k > dcp.number_of_blocks THEN 0
    ELSE OnWireLength(dcp.blocks[k].v.block) + SumOnWire(dcp, k + 1)

\* C12: for every frame built by Dcp::new and add_block calls (any variant,
\* FullIpSuite and MacAddress included) header.data_length is the sum of the
\* on-wire lengths of its blocks: 4 + the declared length the encoder writes,
\* plus one pad byte when that is odd
C12_DataLengthIsSum ==
    pc \in {"build", "encoded"} =>
        call_arg.v.header.data_length = SumOnWire(call_arg.v, 1)

\* where the encoder puts block k of the frame
RECURSIVE BlockStart(_, _)
BlockStart(dcp, k) ==
    IF k = 1 THEN ETH_PAYLOAD_START + DCP_HEADER_LENGTH_FIELD
    ELSE BlockStart(dcp, k - 1) + dcp.blocks[k - 1].v.block_length

\* C13: in every encoded frame a block whose 4 + declared length is odd is
\* followed by exactly one 0x00 pad byte before the next block starts, and a
\* block whose 4 + declared length is even by none
C13_PadAfterOddBlocks ==
    Encoded =>
        \A k \in 1..call_arg.v.number_of_blocks :
            LET buf == call_ret.v.encoded.v
                s == BlockStart(call_arg.v, k)
                n == 4 + ReadU16(buf, s + 2)
            IN  /\ n % 2 = 1 => buf[s + n + 1] = 0
                /\ k < call_arg.v.number_of_blocks =>
                      BlockStart(call_arg.v, k + 1) = s + n + (n % 2)

\* C14: for every frame f built with Dcp::new and add_block, parsing the bytes
\* produced by encode_into yields a frame equal to f: addresses, FrameID,
\* header fields, number of blocks and every block (variant, payload,
\* block_length)
C14_RoundTrip ==
    Encoded =>
        /\ call_ret.v.parsed.res = "ok"
        /\ call_ret.v.parsed.v = call_arg.v

\* the device's address, subnet mask and gateway are all 0.0.0.0
IpAllZero ==
    /\ config.ip_config.ip_address = <<0, 0, 0, 0>>
    /\ config.ip_config.subnet_mask = <<0, 0, 0, 0>>
    /\ config.ip_config.gateway = <<0, 0, 0, 0>>

\* C15: the IpParameter block of the Identify response carries BlockInfo = 0
\* (IP not set) if and only if the device's configured IP address, subnet
\* mask and gateway are all 0.0.0.0, and a non-zero BlockInfo otherwise
C15_BlockInfoTracksIp ==
    \A data \in LatestQueued :
        LET s == BlockStart(response.v, 7)
        IN  /\ Slice(data, s, s + 2) = <<1, 2>>
            /\ (ReadU16(data, s + 4) = 0) <=> IpAllZero

(***************************************************************************)
(* Properties of the receive path under malformed frames.                  *)
(***************************************************************************)
\* what Dcp::parse returned for the frame handle_incoming_packet just took
ParsedIn == ReceivedFrame[packet_in].parsed[overflow_checks]

\* C16: for every received byte sequence (any DataLength, any option and
\* suboption codes, DHCP, Control, DeviceInitiative, NMEDomain and
\* ManufacturerSpecific included, any declared block length, 0 and 1
\* included) handle_incoming_packet returns normally and never panics
C16_NeverPanics ==
    packet_in # NoFrame => ~panicked

\* the frame has a block for which parse_block returns an error
HasFailingBlock(d) ==
    \E k \in 1..Len(d.blocks) :
        ParseBlock(SubSeq(RawBlockBytes(d.blocks[k]), 1,
                          4 + d.blocks[k].declared)).res = "err"

\* C17: a received frame with a block that fails to parse (e.g. option 0x7E),
\* at any position of its block list, is dropped as a whole: no response is
\* enqueued, the outgoing queue and the identity state are unchanged
C17_FailingBlockDropsFrame ==
    [][(/\ pc = "idle"
        /\ ntick' = ntick + 1
        /\ packet_in' # NoFrame
        /\ HasFailingBlock(FrameTable[packet_in']))
       => /\ next_id' = next_id
          /\ outgoing_packets' = outgoing_packets
          /\ config' = config
          /\ interface' = interface]_vars

\* C18: no input frame of at most 1500 bytes makes Dcp::parse call
\* parse_block more than MAX_DCP_BLOCK_NUMBER (32) times
C18_AtMost32BlockParses ==
    (packet_in # NoFrame /\ Len(WireBytes[packet_in]) <= 1500)
        => ParseCalls[packet_in][overflow_checks] <= MAX_DCP_BLOCK_NUMBER

\* the frame's DataLength reaches beyond its first 32 blocks
UnconsumedAfterMax(d) ==
    /\ Len(d.blocks) > MAX_DCP_BLOCK_NUMBER
    /\ d.data_length
         > Len(RawBlocksBytes(SubSeq(d.blocks, 1, MAX_DCP_BLOCK_NUMBER), 1))

\* C19: when a frame's DataLength still has unconsumed bytes after 32 blocks
\* have been parsed, Dcp::parse returns a TooManyBlocks error: an error value,
\* with no identity change and nothing enqueued
C19_TooManyBlocksError ==
    (packet_in # NoFrame /\ UnconsumedAfterMax(FrameTable[packet_in]))
        => /\ ParsedIn.res = "err"
           /\ ParsedIn.e = "TooManyBlocks"
           /\ ~panicked

\* a block of the frame starts before DataLength and ends after it
Overshoots(d) ==
    \E k \in 1..Len(d.blocks) :
        /\ Len(RawBlocksBytes(SubSeq(d.blocks, 1, k - 1), 1)) < d.data_length
        /\ Len(RawBlocksBytes(SubSeq(d.blocks, 1, k), 1)) > d.data_length

\* C20: when a block's declared length makes the parse cursor advance past the
\* header's DataLength, Dcp::parse returns a BlockLengthOverflow error instead
\* of a parsed frame
C20_BlockLengthOverflowError ==
    (packet_in # NoFrame /\ Overshoots(FrameTable[packet_in]))
        => /\ ParsedIn.res = "err"
           /\ ParsedIn.e = "BlockLengthOverflow"

(***************************************************************************)
(* Properties of the identity state.                                       *)
(***************************************************************************)
\* handle_periodic has just handled a received frame
Handled == pc = "idle" /\ ntick' = ntick + 1 /\ packet_in' # NoFrame

\* a Set request carrying exactly one IpParameter or FullIpSuite block
SetsOneIp(d) ==
    /\ IsSetRequest(d)
    /\ Len(d.blocks) = 1
    /\ d.blocks[1].option = 1
    /\ d.blocks[1].suboption \in {2, 3}

\* C21: after dispatching a Set frame carrying one IpParameter (or
\* FullIpSuite) block with values (ip, mask, gateway) the identity's ip,
\* subnet mask and gateway equal those values and update_interface has been
\* called exactly once, with that address
C21_SetIpApplied ==
    [][(Handled /\ SetsOneIp(FrameTable[packet_in'])) =>
        LET body == FrameTable[packet_in'].blocks[1].body
        IN  /\ config'.ip_config.ip_address = SubSeq(body, 3, 6)
            /\ config'.ip_config.subnet_mask = SubSeq(body, 7, 10)
            /\ config'.ip_config.gateway = SubSeq(body, 11, 14)
            /\ update_calls' = 1
            /\ interface' = SubSeq(body, 3, 6)]_vars

\* the Set request with a FullIpSuite block has been dispatched
C21_Witness ==
    /\ packet_in = "SetFullIp"
    /\ pc = "send"
    /\ config.ip_config.ip_address = <<10, 0, 0, 7>>
    /\ config.ip_config.gateway = <<10, 0, 0, 1>>
    /\ update_calls = 1

\* C22: an Identify request handled at tick t produces a response whose
\* NameOfStation and IpParameter blocks equal the values written by the most
\* recent Set request handled at any tick before t (or the initial
\* configuration if there was none)
C22_ResponseReflectsLatestSet ==
    [][(Handled /\ response'.some) =>
        LET ns == response'.v.blocks[2].v.block
            ip == response'.v.blocks[7].v.block
        IN  /\ ns.t = "NameOfStation"
            /\ SubSeq(ns.name, 1, ns.length) = last_set.name
            /\ ip.t = "IpParameter"
            /\ ip.ip_address = last_set.ip_address
            /\ ip.subnet_mask = last_set.subnet_mask
            /\ ip.gateway = last_set.gateway]_vars

\* the identity state: station name, ip, subnet mask, gateway
Identity(c) ==
    <<SubSeq(c.name_of_station, 1, c.name_of_station_len), c.ip_config.ip_address,
      c.ip_config.subnet_mask, c.ip_config.gateway>>

\* C23: the identity state (station name, ip, mask, gateway) changes only
\* while handling a frame that is a Set request (FrameID GetSet and ServiceID
\* Set); Get frames, Identify and Hello frames, response frames and every
\* other frame leave it unchanged
C23_OnlySetChangesIdentity ==
    [][Identity(config') # Identity(config) =>
        /\ Handled
        /\ FrameTable[packet_in'].frame_id = 65277
        /\ FrameTable[packet_in'].service_id = 4]_vars

\* C24: the device MAC and the device vendor string of the identity state are
\* the same in every reachable state: no received frame (a Set carrying a
\* MacAddress or DeviceVendor block included) changes them
C24_MacAndVendorImmutable ==
    [][/\ config'.ip_config.mac_address = config.ip_config.mac_address
       /\ config'.device_vendor = config.device_vendor
       /\ config'.device_vendor_len = config.device_vendor_len]_vars

\* a Set request carrying a DeviceVendor block of 7 bytes has been dispatched
\* (the Set request carrying a MacAddress block parses just as well)
C24_Witness ==
    /\ packet_in = "SetVendor"
    /\ pc = "send"
    /\ ntick = 2
    /\ config.ip_config.mac_address = OWN_MAC
    /\ config.device_vendor_len \in {2, 3}
    /\ ReceivedFrame["SetVendor"].parsed[TRUE].v.blocks[1].v.block.t = "DeviceVendor"
    /\ ReceivedFrame["SetMac"].parsed[TRUE].v.blocks[1].v.block.t = "MacAddress"

\* C25: in every reachable state, after any sequence of received frames, the
\* identity's station-name length is <= 240 and its vendor-string length is
\* <= 255
C25_LengthsWithinMaxima ==
    /\ config.name_of_station_len <= MAX_NAME_OF_STATION_LENGTH
    /\ Len(config.name_of_station) = MAX_NAME_OF_STATION_LENGTH
    /\ config.device_vendor_len <= MAX_DEVICE_VENDOR_LENGTH
    /\ Len(config.device_vendor) = MAX_DEVICE_VENDOR_LENGTH

\* a station name of the maximal length has been set, and a Set request with
\* a longer name has been received
C25_Witness ==
    /\ config.name_of_station_len = MAX_NAME_OF_STATION_LENGTH
    /\ packet_in = "SetTooLongName"
    /\ ntick = 2

\* C26: for every identity state that satisfies the declared maxima (station
\* name <= 240 bytes, vendor <= 255 bytes) building the Identify response and
\* encoding it into the 255-byte response buffer stays within the buffer, so
\* encoding never fails; an Identify request that follows a Set of a long
\* station name is still answered
C26_EncodingFitsBuffer ==
    (response.some /\ C25_LengthsWithinMaxima) =>
        /\ ETH_PAYLOAD_START + DCP_HEADER_LENGTH_FIELD
             + response.v.header.data_length <= RESPONSE_BUF_LEN
        /\ ~panicked
        /\ LatestQueued # {} \/ next_id \in dropped

(***************************************************************************)
(* Properties of the Ethernet layer.                                       *)
(***************************************************************************)
\* C27: parsing a frame that carries an 802.1Q tag (type word 0x8100 at
\* bytes 12..14, EtherType at 16..18, FrameID at 18..20, payload from 20)
\* yields the same destination, source, EtherType, FrameID, header and blocks
\* as parsing the same frame with the 4 tag bytes removed
C27_VlanTagTransparent ==
    call_ret.some => call_ret.v.tagged = call_ret.v.untagged

\* the Set request with an IpParameter block has been parsed both ways
C27_Witness ==
    /\ call_ret.some
    /\ call_arg.v.name = "SetIp"
    /\ ~call_arg.v.padded
    /\ call_ret.v.tagged.res = "ok"
    /\ call_ret.v.tagged.v.frame_id = "GetSet"
    /\ call_ret.v.tagged.v.number_of_blocks = 1
    /\ call_ret.v.tagged.v.blocks[1].v.block.ip_address = <<192, 168, 1, 50>>

\* C28: a received frame whose EtherType (after an optional VLAN tag) is not
\* 0x8892 is ignored: parsing it does not yield a DCP frame, and the identity
\* state and the outgoing queue are unchanged
C28_NotProfinetIgnored ==
    [][(Handled /\ FrameTable[packet_in'].eth_type # 34962) =>
        /\ ReceivedFrame[packet_in'].parsed[overflow_checks].res # "ok"
        /\ config' = config
        /\ outgoing_packets' = outgoing_packets
        /\ next_id' = next_id]_vars

(***************************************************************************)
(* Properties of the transmit path.                                        *)
(***************************************************************************)
\* send_queued_packets runs: it hands every due packet to the transport
Sending == pc = "send" /\ pc' = "idle"

\* C29: a packet whose transmission attempt fails (the transport returns
\* TxWouldBlock) is not retried: it is not handed to the transport again on
\* any later tick
C29_FailedNotRetried ==
    [][Sending =>
        \A i \in tx_failed :
            ~(outgoing_packets[i].some /\ IsDue(outgoing_packets[i].v, now))]_vars

\* the ids of the responses the transport accepted
SentIds == {sent[k].id : k \in 1..Len(sent)}

\* C30: every received request eventually reaches a terminal state: under
\* continuing ticks with an advancing clock and a transport that eventually
\* accepts frames, every response that was enqueued is eventually transmitted
\* and its slot freed, every other request ends as dropped, and no slot stays
\* occupied forever
C30_EveryRequestTerminates ==
    /\ \A i \in Slots : outgoing_packets[i].some ~> ~outgoing_packets[i].some
    /\ \A id \in 1..MaxTicksLive :
          (next_id >= id /\ id \notin dropped) ~> (id \in SentIds)


(***************************************************************************)
(* Header parsing as a pure function: DcpHeaderFrame::new_checked followed *)
(* by DcpHeader::parse, applied to DCP payloads of several lengths with    *)
(* known and unknown ServiceID and ServiceType bytes.                      *)
(***************************************************************************)
HeaderLengths == {0, 1, 2, 9, 10, 11, 12, 14}

HeaderTails ==
    { <<1, 2, 3, 4, 0, 7, 0, 4, 255, 0, 0, 0>>,
      <<0, 0, 0, 1, 1, 0, 0, 0, 0, 0, 0, 0>> }

HeaderPayloads ==
    { SubSeq(<<sid, sty>> \o tail, 1, len) :
        sid \in {0, 3, 4, 5, 6, 7}, sty \in {0, 1, 2, 5},
        tail \in HeaderTails, len \in HeaderLengths }

InitHeader ==
    /\ InitDevice
    /\ config.ip_config.ip_address = <<0, 0, 0, 0>>
    /\ pc = "header"
    /\ call_arg \in {Some(p) : p \in HeaderPayloads}
    /\ call_ret = None

ParseHeader ==
    /\ pc = "header"
    /\ ~call_ret.some
    /\ call_ret' = Some(DcpHeaderParse(call_arg.v))
    /\ UNCHANGED <<config, interface, outgoing_packets, panicked, overflow_checks, now,
                   pc, packet_in, response, update_calls, sent, tx_failed, txfails,
                   ntick, next_id, dropped, call_arg, last_set,
                   tasks, added, callbacks>>

SpecHeader == InitHeader /\ [][ParseHeader]_vars

(***************************************************************************)
(* C31: header parsing succeeds exactly when the DCP payload has at least  *)
(* 10 bytes, byte 0 is a known ServiceID (3, 4, 5, 6) and byte 1 a known   *)
(* ServiceType (0, 1, 5); on success XID, ResponseDelayFactor and          *)
(* DataLength are the big-endian values of bytes 2..6, 6..8 and 8..10,     *)
(* and otherwise the result is the matching error: short header, unknown   *)
(* ServiceID, unknown ServiceType.                                         *)
(***************************************************************************)
C31_HeaderParseExact ==
    (pc = "header" /\ call_ret.some) =>
        LET p == call_arg.v
            r == call_ret.v
            long == Len(p) >= 10
            known_id == long /\ p[1] \in {3, 4, 5, 6}
            known_type == long /\ p[2] \in {0, 1, 5}
        IN  /\ (r.res = "ok") <=> (long /\ known_id /\ known_type)
            /\ r.res = "ok" =>
                  /\ r.v.x_id = ReadU32(p, 2)
                  /\ r.v.response_delay_factor = ReadU16(p, 6)
                  /\ r.v.data_length = ReadU16(p, 8)
            /\ ~long => r = Err("InvalidHeaderLength")
            /\ (long /\ ~known_id) => r = Err("InvalidServiceID")
            /\ (long /\ known_id /\ ~known_type) => r = Err("InvalidServiceType")


(***************************************************************************)
(* Option decoding as a pure function: BlockOption::try_from applied to    *)
(* every value of the option byte, as DcpBlock::parse_block calls it.      *)
(***************************************************************************)
InitOption ==
    /\ InitDevice
    /\ config.ip_config.ip_address = <<0, 0, 0, 0>>
    /\ pc = "option"
    /\ call_arg \in {Some(b) : b \in 0..255}
    /\ call_ret = None

DecodeOption ==
    /\ pc = "option"
    /\ ~call_ret.some
    /\ call_ret' = Some(IF BlockOptionTry(call_arg.v).some
                        THEN Ok(BlockOptionTry(call_arg.v).v)
                        ELSE Err("InvalidBlockOption"))
    /\ UNCHANGED <<config, interface, outgoing_packets, panicked, overflow_checks, now,
                   pc, packet_in, response, update_calls, sent, tx_failed, txfails,
                   ntick, next_id, dropped, call_arg, last_set,
                   tasks, added, callbacks>>

SpecOption == InitOption /\ [][DecodeOption]_vars

(***************************************************************************)
(* C32: decoding an option byte b is total over 0..255: it succeeds        *)
(* exactly for b in {1, 2, 3, 5, 6, 7}, for every b in 0x80..0xFE          *)
(* (ManufacturerSpecific) and for 0xFF (All), and gives the unknown-option *)
(* error for every other value.                                            *)
(***************************************************************************)
C32_OptionDecodeTotal ==
    (pc = "option" /\ call_ret.some) =>
        LET b == call_arg.v
            r == call_ret.v
        IN  /\ r.res \in {"ok", "err"}
            /\ (r.res = "ok") <=> (b \in {1, 2, 3, 5, 6, 7} \cup (128..254) \cup {255})
            /\ (r.res = "ok" /\ b \in 128..254) => r.v = "ManufacturerSpecific"
            /\ (r.res = "ok" /\ b = 255) => r.v = "All"
            /\ r.res = "err" => r = Err("InvalidBlockOption")


(***************************************************************************)
(* The send_at a device whose MAC is mac computes for the frame f received *)
(* at current_timestamp, the device being otherwise in the current state:  *)
(* Some(send_at) of the packet handle_incoming_packet queues, None when it *)
(* queues nothing.                                                         *)
(***************************************************************************)
DeviceMacs == {OWN_MAC, OTHER_MAC, <<0, 14, 207, 18, 52, 3>>}

SendAtOf(mac, f, current_timestamp) ==
    LET device == [DeviceState EXCEPT !.config.ip_config.mac_address = mac]
        st == HandleIncomingPacket(device, ReceivedFrame[f], current_timestamp,
                                   overflow_checks, next_id + 1)
        i == FirstFree(outgoing_packets)
    IN  IF i # 0 /\ ~st.panicked /\ st.outgoing_packets[i].some
        THEN Some(st.outgoing_packets[i].v.send_at)
        ELSE None

(***************************************************************************)
(* C33: the send_at computed for an Identify response depends on the       *)
(* request's ResponseDelayFactor and on the device MAC: there are two      *)
(* devices with different MACs that, given the same request at the same    *)
(* time, compute different send_at timestamps.                             *)
(***************************************************************************)
C33_SendAtDependsOnMac ==
    \E m1 \in DeviceMacs, m2 \in DeviceMacs, a \in Advances :
        \E f \in FrameNames \ (MalformedFrames \cup IdentityFrames) :
            /\ m1 # m2
            /\ SendAtOf(m1, f, now + a).some
            /\ SendAtOf(m2, f, now + a).some
            /\ SendAtOf(m1, f, now + a).v # SendAtOf(m2, f, now + a).v


(***************************************************************************)
(* Dcp::parse on frames made of up to MaxWireBlocks blocks the parser      *)
(* supports, of even and odd on-wire length, received into the 1024-byte   *)
(* packet buffer.                                                          *)
(***************************************************************************)
MaxWireBlocks == 3

WireBlockKinds ==
    {AllSelector, NameBlock(Letters(4)), NameBlock(Letters(5)),
     IpParameterBlock(<<192, 168, 1, 50>>, <<255, 255, 255, 0>>, <<192, 168, 1, 1>>)}

WireBlockLists == UNION {[1..n -> WireBlockKinds] : n \in 0..MaxWireBlocks}

InitWire ==
    /\ InitDevice
    /\ config.ip_config.ip_address = <<0, 0, 0, 0>>
    /\ pc = "wire"
    /\ call_arg \in {Some(bs) : bs \in WireBlockLists}
    /\ call_ret = None

ParseWire ==
    /\ pc = "wire"
    /\ ~call_ret.some
    /\ LET bytes == FrameBytes(SetDescr(1, 4, call_arg.v))
           buffer == PadTo(bytes, Len(bytes), PACKET_BUF_LEN)
       IN  call_ret' = Some(DcpParse(EthernetFrameNewChecked(buffer).v,
                                     overflow_checks))
    /\ UNCHANGED <<config, interface, outgoing_packets, panicked, overflow_checks, now,
                   pc, packet_in, response, update_calls, sent, tx_failed, txfails,
                   ntick, next_id, dropped, call_arg, last_set,
                   tasks, added, callbacks>>

SpecWire == InitWire /\ [][ParseWire]_vars

\* the block the claim reads out of the wire block b: the typed fields sit
\* behind the 4-byte block header and the 2-byte BlockInfo word
FieldsAtOffsets(b) ==
    LET wire == <<b.option, b.suboption>> \o WriteU16(b.declared) \o b.body
    IN  CASE b.option = 255 -> [t |-> "All"]
          [] b.option = 1 /\ b.suboption = 2 ->
                [t |-> "IpParameter",
                 ip_address |-> SubSeq(wire, 7, 10),
                 subnet_mask |-> SubSeq(wire, 11, 14),
                 gateway |-> SubSeq(wire, 15, 18)]
          [] b.option = 2 /\ b.suboption = 2 ->
                [t |-> "NameOfStation",
                 name |-> SubSeq(wire, 7, 6 + (b.declared - 2))
                            \o Zeros(MAX_NAME_OF_STATION_LENGTH - (b.declared - 2)),
                 length |-> b.declared - 2]

(***************************************************************************)
(* C34: Dcp::parse returns the blocks in wire order, skipping exactly one  *)
(* pad byte after every block whose declared length + 4 is odd, and reads  *)
(* the typed fields behind the 2-byte BlockInfo word: IpParameter at block *)
(* offsets 6..10, 10..14, 14..18, and the L - 2 name bytes of a            *)
(* NameOfStation of declared length L from offset 6.                       *)
(***************************************************************************)
C34_BlocksInWireOrder ==
    (pc = "wire" /\ call_ret.some) =>
        /\ call_ret.v.res = "ok"
        /\ call_ret.v.v.number_of_blocks = Len(call_arg.v)
        /\ \A i \in 1..Len(call_arg.v) :
              /\ call_ret.v.v.blocks[i].some
              /\ call_ret.v.v.blocks[i].v.block = FieldsAtOffsets(call_arg.v[i])
              /\ call_ret.v.v.blocks[i].v.block_length = call_arg.v[i].declared

\* an odd block (NameOfStation of 5 letters) followed by an IpParameter
\* block and an even NameOfStation block has been parsed
C34_Witness ==
    /\ pc = "wire"
    /\ call_ret.some
    /\ call_ret.v.res = "ok"
    /\ Len(call_arg.v) = 3
    /\ (call_arg.v[1].declared + 4) % 2 = 1
    /\ call_ret.v.v.blocks[2].v.block.t = "IpParameter"
    /\ call_ret.v.v.blocks[3].v.block.t = "NameOfStation"
    /\ call_ret.v.v.blocks[3].v.block.length = 4


(***************************************************************************)
(* The dispatcher under frames addressed to somebody else: every frame of  *)
(* the table with the destination replaced by the MAC of another station   *)
(* or by a multicast address next to the DCP one, between Identify         *)
(* requests that fill the queue.                                           *)
(***************************************************************************)
MaxTicksDst == 2

OtherDestinations == {OTHER_MAC, <<1, 14, 207, 0, 0, 1>>}

\* what handle_incoming_packet reads from the frame n sent to the address d
RedirectedFrame ==
    [n \in FrameNames |->
        [d \in OtherDestinations |->
            Received(FrameBytes([FrameTable[n] EXCEPT !.dst = d]))]]

\* handle_periodic, first half, recv_next returning the frame f addressed
\* to d; call_arg and call_ret record the address and the tick
PollRedirected ==
    /\ pc = "idle"
    /\ ~panicked
    /\ ntick < MaxTicksDst
    /\ \E a \in DispatchAdvances, f \in FrameNames, d \in OtherDestinations :
        /\ now + a <= MaxTime
        /\ LET st == HandleIncomingPacket(DeviceState, RedirectedFrame[f][d], now + a,
                                          overflow_checks, next_id + 1)
           IN  /\ now' = now + a
               /\ packet_in' = f
               /\ call_arg' = Some(d)
               /\ call_ret' = Some(ntick + 1)
               /\ ntick' = ntick + 1
               /\ config' = st.config
               /\ interface' = st.interface
               /\ outgoing_packets' = st.outgoing_packets
               /\ panicked' = st.panicked
               /\ response' = st.response
               /\ update_calls' = st.update_calls
               /\ next_id' = next_id + st.queue_calls
               /\ dropped' = IF st.queue_calls > 0 /\ FirstFree(outgoing_packets) = 0
                             THEN dropped \cup {next_id + 1} ELSE dropped
               /\ pc' = IF st.panicked THEN "idle" ELSE "send"
    /\ UNCHANGED <<overflow_checks, sent, tx_failed, txfails, last_set,
                   tasks, added, callbacks>>

DstFrames == {"IdentifyRdf7"}
NextDst == Poll(DstFrames, DispatchAdvances, MaxTicksDst) \/ PollRedirected \/ Send
SpecDst == Init /\ [][NextDst]_vars

\* the step is handle_incoming_packet on a frame addressed to somebody else
Redirected == pc = "idle" /\ ntick' = ntick + 1 /\ call_ret' = Some(ntick')

(***************************************************************************)
(* C35: a received frame whose destination MAC is neither the device's own *)
(* MAC nor the DCP multicast address 01:0E:CF:00:00:00 changes nothing:    *)
(* the identity state and the outgoing queue are unchanged, whatever its   *)
(* EtherType, FrameID and blocks.                                          *)
(***************************************************************************)
C35_OtherDestinationIgnored ==
    [][Redirected =>
        /\ config' = config
        /\ interface' = interface
        /\ outgoing_packets' = outgoing_packets
        /\ next_id' = next_id
        /\ ~panicked']_vars

\* a Set request for the station name, addressed to another station, has
\* been received while a response is queued
C35_Witness ==
    /\ call_ret = Some(ntick)
    /\ packet_in = "SetName"
    /\ call_arg = Some(OTHER_MAC)
    /\ outgoing_packets[1].some
    /\ pc = "send"


(***************************************************************************)
(* C36: after a successful Dcp::parse, number_of_blocks is the number of   *)
(* parsed blocks actually stored: blocks[i] is Some for every              *)
(* i < number_of_blocks and None for every i >= number_of_blocks.          *)
(***************************************************************************)
C36_CountMatchesStored ==
    (pc = "vlan" /\ call_ret.some /\ call_ret.v.untagged.res = "ok") =>
        \A i \in 1..MAX_DCP_BLOCK_NUMBER :
            call_ret.v.untagged.v.blocks[i].some
                <=> (i <= call_ret.v.untagged.v.number_of_blocks)


(***************************************************************************)
(* The while loop of Dcp::parse, one iteration per step, on the blocks     *)
(* region of a received frame (the 1024-byte packet buffer behind the      *)
(* Ethernet and DCP headers) that starts with two blocks, some of them     *)
(* declaring a length near 65535.  call_arg is the input (payload and      *)
(* DataLength), call_ret the loop's variables.                             *)
(***************************************************************************)
LOOP_PAYLOAD_LEN == PACKET_BUF_LEN - ETH_PAYLOAD_START - DCP_HEADER_LENGTH_FIELD

DeclaredNearMax == {65532, 65533, 65534, 65535}

LoopBlockKinds ==
    {AllSelector, NameBlock(Letters(4))}
        \cup {[RawBlock(option, 2, <<>>) EXCEPT !.declared = declared] :
                option \in {2, 126, 255}, declared \in DeclaredNearMax}

LoopDataLengths == {8, 12}

InitLoop ==
    /\ InitDevice
    /\ config.ip_config.ip_address = <<0, 0, 0, 0>>
    /\ pc = "loop"
    /\ call_arg \in
          {Some([payload |-> PadTo(RawBlocksBytes(<<b1, b2>>, 1),
                                   Len(RawBlocksBytes(<<b1, b2>>, 1)),
                                   LOOP_PAYLOAD_LEN),
                 data_length |-> n]) :
              b1 \in LoopBlockKinds, b2 \in LoopBlockKinds, n \in LoopDataLengths}
    /\ call_ret = Some([res |-> "run", block_start_index |-> 0, block_number |-> 0,
                        blocks |-> NoBlocks])

\* one iteration of the while loop: the next values of the loop's variables,
\* or the panic that ends it
LoopBody(payload, block_start_index, block_number, blocks, checks) ==
    IF block_start_index + 4 > Len(payload) THEN Panic("slice index")
    ELSE
      LET declared == ReadU16(payload, block_start_index + 2)
          block_length == (declared + 4) % 65536
          block_end_index == block_start_index + block_length
      IN  IF checks /\ declared + 4 > 65535 THEN Panic("attempt to add with overflow")
          ELSE IF block_end_index > Len(payload) THEN Panic("slice index")
          ELSE
            LET r == ParseBlock(Slice(payload, block_start_index, block_end_index))
            IN  IF r.res = "panic" THEN r
                ELSE IF block_number >= MAX_DCP_BLOCK_NUMBER
                THEN Panic("index out of bounds")
                ELSE [res |-> "run",
                      block_start_index |->
                          block_end_index + (IF block_length % 2 # 0 THEN 1 ELSE 0),
                      block_number |-> block_number + 1,
                      blocks |-> [blocks EXCEPT ![block_number + 1] =
                                    IF r.res = "ok" THEN Some(r.v) ELSE None]]

LoopIteration ==
    /\ pc = "loop"
    /\ call_ret.v.res = "run"
    /\ call_ret.v.block_start_index < call_arg.v.data_length
    /\ call_ret' = Some(LoopBody(call_arg.v.payload, call_ret.v.block_start_index,
                                 call_ret.v.block_number, call_ret.v.blocks,
                                 overflow_checks))
    /\ panicked' = (call_ret'.v.res = "panic")
    /\ UNCHANGED <<config, interface, outgoing_packets, overflow_checks, now,
                   pc, packet_in, response, update_calls, sent, tx_failed, txfails,
                   ntick, next_id, dropped, call_arg, last_set,
                   tasks, added, callbacks>>

LoopExit ==
    /\ pc = "loop"
    /\ call_ret.v.res = "run"
    /\ ~(call_ret.v.block_start_index < call_arg.v.data_length)
    /\ call_ret' = Some(Ok([number_of_blocks |-> call_ret.v.block_number,
                            blocks |-> call_ret.v.blocks]))
    /\ UNCHANGED <<config, interface, outgoing_packets, panicked, overflow_checks, now,
                   pc, packet_in, response, update_calls, sent, tx_failed, txfails,
                   ntick, next_id, dropped, call_arg, last_set,
                   tasks, added, callbacks>>

NextLoop == LoopIteration \/ LoopExit
SpecLoop == InitLoop /\ [][NextLoop]_vars

(***************************************************************************)
(* C37: the block loop of Dcp::parse terminates on every input: each       *)
(* iteration advances the cursor by at least 4 bytes, for every declared   *)
(* 16-bit block length, values near 65535 included, so the loop ends       *)
(* after finitely many iterations.                                         *)
(***************************************************************************)
C37_IterationAdvancesFour ==
    [][(pc = "loop" /\ call_ret.v.res = "run" /\ call_ret'.v.res = "run") =>
        call_ret'.v.block_start_index >= call_ret.v.block_start_index + 4]_vars


(***************************************************************************)
(* C38: a queued response is a snapshot taken when the request was         *)
(* handled: a Set request processed after the response was enqueued and    *)
(* before it is transmitted does not change the bytes or the send_at of    *)
(* the queued packet.                                                      *)
(***************************************************************************)
C38_QueuedResponseIsSnapshot ==
    [][(Handled /\ IsSetRequest(FrameTable[packet_in'])) =>
        \A i \in Slots :
            outgoing_packets[i].some =>
                /\ outgoing_packets'[i].some
                /\ outgoing_packets'[i].v.data = outgoing_packets[i].v.data
                /\ outgoing_packets'[i].v.send_at = outgoing_packets[i].v.send_at
                /\ outgoing_packets'[i].v.length = outgoing_packets[i].v.length]_vars

\* a Set request has changed the station name while the response to an
\* earlier Identify request is still queued
C38_Witness ==
    /\ pc = "send"
    /\ packet_in = "SetName"
    /\ config.name_of_station_len = 5
    /\ outgoing_packets[1].some
    /\ outgoing_packets[1].v.send_at >= now
    /\ sent = <<>>


\* Dcp::length(): 26 bytes of Ethernet and DCP header plus the block_length
\* of every block of the frame
RECURSIVE SumBlockLength(_, _)
SumBlockLength(blocks, k) ==
    IF k > Len(blocks) THEN 0
    ELSE (IF blocks[k].some THEN blocks[k].v.block_length ELSE 0)
            + SumBlockLength(blocks, k + 1)

DcpLength(dcp) == 26 + SumBlockLength(dcp.blocks, 1)

(***************************************************************************)
(* C39: the length recorded in an OutgoingPacket, and therefore the number *)
(* of bytes handed to the transport, equals the encoded length of the      *)
(* response frame, Dcp::length(): 26 bytes of Ethernet and DCP header plus *)
(* the sum of the blocks' on-wire lengths.                                 *)
(***************************************************************************)
C39_LengthIsEncodedLength ==
    [][(Enqueued /\ ~panicked' /\ response'.some) =>
        \A i \in Slots :
            (outgoing_packets'[i].some /\ outgoing_packets'[i].v.id = next_id') =>
                outgoing_packets'[i].v.length = DcpLength(response'.v)]_vars


(***************************************************************************)
(* The task scheduler (src/src/scheduler.rs): add_task and tick on an      *)
(* initially empty scheduler, the clock advancing between the calls.  A    *)
(* task is named by the number of its add_task call; its callback only     *)
(* records that it ran.                                                    *)
(***************************************************************************)
MaxTasks == 2

TaskDelays == {0, 400, 500}

\* Scheduler::add_task(name, delay, callback, current_time)
AddTask(ts, name, delay, current_time) ==
    [i \in 1..MAX_SCHEDULER_TASKS |->
        IF ts[i] = None
        THEN Some([name |-> name, run_at |-> current_time + delay])
        ELSE ts[i]]

\* Scheduler::tick(pnet, current_time) from slot i on: the slots afterwards
\* and the callbacks run, in order
RECURSIVE SchedulerTick(_, _, _)
SchedulerTick(ts, current_time, i) ==
    IF i > MAX_SCHEDULER_TASKS THEN [tasks |-> ts, ran |-> <<>>]
    ELSE IF ts[i].some /\ current_time >= ts[i].v.run_at
    THEN LET rest == SchedulerTick([ts EXCEPT ![i] = None], current_time, i + 1)
         IN  [tasks |-> rest.tasks,
              ran |-> <<[name |-> ts[i].v.name, slot |-> i, at |-> current_time]>>
                        \o rest.ran]
    ELSE SchedulerTick(ts, current_time, i + 1)

InitScheduler ==
    /\ InitDevice
    /\ config.ip_config.ip_address = <<0, 0, 0, 0>>
    /\ overflow_checks
    /\ pc = "scheduler"
    /\ call_arg = None
    /\ call_ret = None

CallAddTask ==
    /\ pc = "scheduler"
    /\ Len(added) < MaxTasks
    /\ \E delay \in TaskDelays :
        /\ tasks' = AddTask(tasks, Len(added) + 1, delay, now)
        /\ added' = Append(added, [name |-> Len(added) + 1, run_at |-> now + delay])
    /\ UNCHANGED <<config, interface, outgoing_packets, panicked, overflow_checks, now,
                   pc, packet_in, response, update_calls, sent, tx_failed, txfails,
                   ntick, next_id, dropped, call_arg, call_ret, last_set, callbacks>>

CallTick ==
    /\ pc = "scheduler"
    /\ \E a \in DispatchAdvances :
        /\ now + a <= MaxTime
        /\ now' = now + a
        /\ tasks' = SchedulerTick(tasks, now + a, 1).tasks
        /\ callbacks' = callbacks \o SchedulerTick(tasks, now + a, 1).ran
    /\ ntick' = ntick + 1
    /\ UNCHANGED <<config, interface, outgoing_packets, panicked, overflow_checks,
                   pc, packet_in, response, update_calls, sent, tx_failed, txfails,
                   next_id, dropped, call_arg, call_ret, last_set, added>>

NextScheduler == CallAddTask \/ CallTick
SpecScheduler == InitScheduler /\ [][NextScheduler]_vars

\* the number of callbacks of the task name in the log
RunsOf(log, name) == Cardinality({k \in 1..Len(log) : log[k].name = name})

(***************************************************************************)
(* C40: in the task scheduler each task added with add_task(delay, now)    *)
(* occupies exactly one previously free slot, and its callback runs        *)
(* exactly once, at the first tick whose current_time >= now + delay,      *)
(* after which its slot is free; slots already occupied are unchanged by   *)
(* add_task.                                                               *)
(***************************************************************************)
C40_OneSlotOneRun ==
    [][/\ (pc = "scheduler" /\ added' # added) =>
            /\ Cardinality({i \in 1..MAX_SCHEDULER_TASKS :
                              ~tasks[i].some /\ tasks'[i].some}) = 1
            /\ \A i \in 1..MAX_SCHEDULER_TASKS : tasks[i].some => tasks'[i] = tasks[i]
       /\ (pc = "scheduler" /\ ntick' = ntick + 1) =>
            \A k \in 1..Len(added) :
                /\ RunsOf(callbacks', added[k].name) =
                      (IF now' >= added[k].run_at THEN 1 ELSE 0)
                /\ now' >= added[k].run_at =>
                      \A i \in 1..MAX_SCHEDULER_TASKS :
                          ~(tasks'[i].some /\ tasks'[i].v.name = added[k].name)]_vars

====
